---- MODULE Spec2Model ----
(***************************************************************************)
(* Verification model of the kecs entity-component-system runtime.         *)
(*                                                                         *)
(* Part 1 models the GraphScheduler of src/src/schedule.rs: the dependency *)
(* graph built by add_system, the layering of compute_schedule and the     *)
(* fork-join dispatch of execute, together with the system parameter       *)
(* machinery of src/src/system.rs and src/src/query.rs that produces each  *)
(* system's dependency map.                                                *)
(***************************************************************************)
EXTENDS Integers, Sequences, FiniteSets, TLC

(***************************************************************************)
(* Bounds of the model.                                                    *)
(***************************************************************************)
MaxSystems == 3
MaxQueryTerms == 2
MaxExecutes == 1
MaxEntities == 2
MaxGeneration == 1
MaxQuerySystems == 2
MaxCalls == 7
MaxThreads == 2
MaxAllocCalls == 5
MaxCommands == 2
MaxUpdates == 2
MaxCmdSystems == 1
MaxResourceCalls == 3
MaxCacheSystems == 2
MaxCacheExecutes == 2
MaxParamSystems == 3
MaxMergeSystems == 3
MaxStaleSystems == 1
MaxStores == 3
MaxVecLen == 2
MaxVecCalls == 3
MaxScheduleSystems == 3
MaxKey == 2
MaxSetCalls == 4

(***************************************************************************)
(* Identifiers.  A ComponentId is the dense id the type registry gives to  *)
(* a runtime type; the model names each id by its type.                    *)
(***************************************************************************)
Read == "Read"
Write == "Write"
AccessMode == {Read, Write}

Components == {"A", "B"}
SendResources == {"R"}
NonSendResources == {"N"}
WorldId == "WorldContainer"
DataIds == Components \cup SendResources \cup NonSendResources
\* the order in which a system's accessed values are listed in what it writes
DataOrder == <<"A", "B", "R", "N">>

\* WorldContainer.resource_sendness: true if the resource is Send
resource_sendness == [r \in SendResources \cup NonSendResources |-> r \in SendResources]

root_node_idx == 0

(***************************************************************************)
(* SparseSet<K, V>, represented by its dense vector of <<key, value>>.     *)
(***************************************************************************)
SparseContains(set, key) == \E i \in 1..Len(set) : set[i][1] = key

SparseGet(set, key) == set[CHOOSE i \in 1..Len(set) : set[i][1] = key][2]

SparseInsert(set, key, value) ==
    IF SparseContains(set, key)
    THEN [set EXCEPT ![CHOOSE i \in 1..Len(set) : set[i][1] = key] = <<key, value>>]
    ELSE Append(set, <<key, value>>)

SparseKeys(set) == {set[i][1] : i \in 1..Len(set)}

(***************************************************************************)
(* System parameters.                                                      *)
(***************************************************************************)
QueryParamOf(terms) == [kind |-> "Query", terms |-> terms, res |-> "-"]
WorldParam == [kind |-> "World", terms |-> <<>>, res |-> "-"]
ResParam(r) == [kind |-> "Res", terms |-> <<>>, res |-> r]
ResMutParam(r) == [kind |-> "ResMut", terms |-> <<>>, res |-> r]

FetchTerms == Components \X AccessMode

\* the query term `Entity`, which asks for the handle and for no component
EntityTerm == <<"Entity", "-">>

\* the fetch-term tuples of a query; no component appears twice
QueryTermSeqs ==
    {ts \in UNION {[1..n -> FetchTerms] : n \in 1..MaxQueryTerms} :
        \A i, j \in 1..Len(ts) : i # j => ts[i][1] # ts[j][1]}

\* the systems offered to add_system, each the list of its parameters
SystemMenu ==
    {<<QueryParamOf(ts)>> : ts \in QueryTermSeqs}
    \cup {<<QueryParamOf(<<EntityTerm>>)>>}
    \cup {<<WorldParam>>}
    \cup {<<ResParam(r)>> : r \in SendResources \cup NonSendResources}
    \cup {<<ResMutParam(r)>> : r \in SendResources \cup NonSendResources}
    \cup {<<QueryParamOf(<<<<"A", Read>>>>), QueryParamOf(<<<<"A", Write>>>>)>>}

RECURSIVE compute_component_set(_, _, _)
compute_component_set(terms, i, component_set) ==
    IF i > Len(terms) THEN component_set
    ELSE compute_component_set(terms, i + 1,
            IF terms[i] = EntityTerm THEN component_set
            ELSE SparseInsert(component_set, terms[i][1], terms[i][2]))

ResMut_add_dependencies(p) == <<<<p.res, Read>>>>

\* SystemParam::add_dependencies of one parameter, into an empty set
Param_add_dependencies(p) ==
    CASE p.kind = "Query" -> compute_component_set(p.terms, 1, <<>>)
      [] p.kind = "World" -> <<<<WorldId, Write>>>>
      [] p.kind = "Res" -> <<<<p.res, Read>>>>
      [] p.kind = "ResMut" -> ResMut_add_dependencies(p)

RECURSIVE add_dependencies(_, _, _)
add_dependencies(param_deps, i, system_deps) ==
    IF i > Len(param_deps) THEN system_deps
    ELSE LET component == param_deps[i][1]
             access == param_deps[i][2]
         IN  add_dependencies(param_deps, i + 1,
                IF SparseContains(system_deps, component)
                THEN IF access = Write
                     THEN SparseInsert(system_deps, component, access)
                     ELSE system_deps
                ELSE SparseInsert(system_deps, component, access))

RECURSIVE compute_dependencies(_, _, _)
compute_dependencies(params, i, deps) ==
    IF i > Len(params) THEN deps
    ELSE compute_dependencies(params, i + 1,
            add_dependencies(Param_add_dependencies(params[i]), 1, deps))

Param_is_exclusive(p) ==
    CASE p.kind = "World" -> TRUE
      [] p.kind \in {"Res", "ResMut"} -> ~resource_sendness[p.res]
      [] OTHER -> FALSE

is_exclusive(params) == \E i \in 1..Len(params) : Param_is_exclusive(params[i])

(***************************************************************************)
(* Part 2: the WorldContainer of src/src/world_container.rs with its       *)
(* entity allocator, table storage and archetype manager.  The container   *)
(* is a record; every operation maps a container to the container after   *)
(* the call.  A panic is recorded in the field `panic` and ends the run.   *)
(***************************************************************************)
Values == {"v1", "v2"}
Uninit == "uninit"
NoPanic == "none"

\* the threads that hold a Commands parameter and may call allocate_id
Threads == 1..MaxThreads

None == {}
Some(x) == {x}
Unwrap(opt) == CHOOSE x \in opt : TRUE

EntityIndex(e) == e[1]
EntityGeneration(e) == e[2]

\* ArchetypeId::default(), the id a new EntityInfo carries
DefaultArchetypeId == <<"ArchetypeId(0)">>

\* the hasher fed with the component ids in iteration order; distinct id
\* sequences are taken to hash to distinct values, none of them to the default
ArchetypeHash(ids) == <<"hash">> \o ids

\* a panic unwinds and drops the container: what is left is the message
Panic(w, msg) ==
    IF w.panic # NoPanic THEN w
    ELSE [registrations |-> {}, next_entity_id |-> 0, entity_info |-> <<>>,
          dropped_entities |-> <<>>, columns |-> <<>>, num_entities |-> 0,
          archetypes |-> <<>>, panic |-> msg]

(***************************************************************************)
(* SparseSet::remove on the dense vector: swap with the last entry, pop.   *)
(***************************************************************************)
SparseRemoveAt(set, pos) ==
    IF pos = Len(set) THEN SubSeq(set, 1, Len(set) - 1)
    ELSE SubSeq(set, 1, pos - 1) \o <<set[Len(set)]>> \o SubSeq(set, pos + 1, Len(set) - 1)

\* SparseSet<ComponentId, ()>: the dense vector of the ids
ComponentsContains(components, c) == \E i \in 1..Len(components) : components[i] = c

ComponentsRemove(components, c) ==
    IF ComponentsContains(components, c)
    THEN SparseRemoveAt(components, CHOOSE i \in 1..Len(components) : components[i] = c)
    ELSE components

\* SparseSet<Entity, V>: the key of an entity is its index alone
EntityPos(set, e) ==
    IF \E i \in 1..Len(set) : EntityIndex(set[i][1]) = EntityIndex(e)
    THEN CHOOSE i \in 1..Len(set) : EntityIndex(set[i][1]) = EntityIndex(e)
    ELSE 0

EntitySetContains(set, e) == EntityPos(set, e) # 0

EntitySetInsert(set, e, value) ==
    IF EntitySetContains(set, e)
    THEN [set EXCEPT ![EntityPos(set, e)] = <<@[1], value>>]
    ELSE Append(set, <<e, value>>)

EntitySetRemove(set, e) ==
    IF EntitySetContains(set, e) THEN SparseRemoveAt(set, EntityPos(set, e)) ELSE set

(***************************************************************************)
(* ErasedVec: len, capacity and the slots of the allocation.               *)
(***************************************************************************)
\* the fresh memory of an allocation of n elements
RECURSIVE Allocated(_)
Allocated(n) == IF n = 0 THEN <<>> ELSE Append(Allocated(n - 1), Uninit)

\* a growth into a fresh allocation that does not carry the elements over
grow_exact_into_fresh(vec, grow_elements) ==
    IF grow_elements = 0 THEN vec
    ELSE [vec EXCEPT !.capacity = @ + grow_elements,
                     !.slots = Allocated(Len(@) + grow_elements)]

grow_exact(vec, grow_elements) ==
    IF grow_elements = 0 THEN vec
    ELSE [vec EXCEPT !.capacity = @ + grow_elements,
                     !.slots = @ \o Allocated(grow_elements)]

reserve_exact(vec, new_elements) ==
    LET available == vec.capacity - vec.len
    IN  IF available < new_elements
        THEN grow_exact(vec, new_elements - available)
        ELSE vec

ErasedVec_new(capacity) ==
    reserve_exact([len |-> 0, capacity |-> 0, slots |-> <<>>], capacity)

ensure_len(vec, new_len) ==
    LET grown == IF new_len > vec.capacity
                 THEN grow_exact(vec, new_len - vec.capacity)
                 ELSE vec
    IN  [grown EXCEPT !.len = new_len]

(***************************************************************************)
(* EntityAllocator.                                                        *)
(***************************************************************************)
\* entity_info without the filter on the generation
EntityAllocator_entity_info_unfiltered(w, id) ==
    LET pos == EntityPos(w.entity_info, id)
    IN  IF pos # 0 THEN Some(w.entity_info[pos][2]) ELSE None

EntityAllocator_entity_info(w, id) ==
    LET pos == EntityPos(w.entity_info, id)
    IN  IF pos # 0 /\ w.entity_info[pos][2].generation = EntityGeneration(id)
        THEN Some(w.entity_info[pos][2])
        ELSE None

\* writes back the EntityInfo obtained through entity_info_mut
SetEntityInfo(w, id, info) ==
    [w EXCEPT !.entity_info[EntityPos(w.entity_info, id)] = <<@[1], info>>]

\* allocate_id that hands a freed handle out again as it is
allocate_id_same_generation(w) ==
    IF w.dropped_entities # <<>>
    THEN [world |-> [w EXCEPT !.dropped_entities = SubSeq(@, 1, Len(@) - 1)],
          id |-> w.dropped_entities[Len(w.dropped_entities)]]
    ELSE [world |-> [w EXCEPT !.next_entity_id = @ + 1],
          id |-> <<w.next_entity_id, 0>>]

\* allocate_id: [world, id]
allocate_id(w) ==
    IF w.dropped_entities # <<>>
    THEN LET entity == w.dropped_entities[Len(w.dropped_entities)]
         IN  [world |-> [w EXCEPT !.dropped_entities = SubSeq(@, 1, Len(@) - 1)],
              id |-> <<entity[1], entity[2] + 1>>]
    ELSE [world |-> [w EXCEPT !.next_entity_id = @ + 1],
          id |-> <<w.next_entity_id, 0>>]

\* a registration that hands the new entity the component A when a column
\* of A exists
new_with_id_holding_A(w, id) ==
    IF EntitySetContains(w.entity_info, id)
    THEN Panic(w, "assertion failed: !self.entity_info.contains(&id)")
    ELSE [w EXCEPT !.entity_info =
            EntitySetInsert(@, id, [generation |-> EntityGeneration(id),
                                    components |-> IF "A" \in DOMAIN w.columns
                                                   THEN <<"A">> ELSE <<>>,
                                    archetype_id |-> DefaultArchetypeId])]

new_with_id(w, id) ==
    IF EntitySetContains(w.entity_info, id)
    THEN Panic(w, "assertion failed: !self.entity_info.contains(&id)")
    ELSE [w EXCEPT !.entity_info =
            EntitySetInsert(@, id, [generation |-> EntityGeneration(id),
                                    components |-> <<>>,
                                    archetype_id |-> DefaultArchetypeId])]

destroy_entity(w, entity) ==
    [w EXCEPT !.entity_info = EntitySetRemove(@, entity),
              !.dropped_entities = Append(@, entity)]

(***************************************************************************)
(* TableStorage.                                                           *)
(***************************************************************************)
register_new_entity(w) ==
    [w EXCEPT !.num_entities = @ + 1,
              !.columns = [c \in DOMAIN @ |-> ensure_len(@[c], w.num_entities + 1)]]

erase_entity_component(w, entity, component_id) ==
    IF component_id \notin DOMAIN w.columns
    THEN Panic(w, "called Option::unwrap() on a None value")
    ELSE IF ~(EntityIndex(entity) < w.columns[component_id].len)
    THEN Panic(w, "Not enough storage in the ErasedVec")
    ELSE [w EXCEPT !.columns[component_id].slots[EntityIndex(entity) + 1] = Uninit]

add_entity_component(w, entity, component_id, component) ==
    LET columns == IF component_id \in DOMAIN w.columns
                   THEN w.columns
                   ELSE (component_id :> ensure_len(ErasedVec_new(w.num_entities), w.num_entities))
                        @@ w.columns
    IN  IF ~(EntityIndex(entity) < columns[component_id].len)
        THEN Panic(w, "Not enough storage in the ErasedVec")
        ELSE [w EXCEPT !.columns =
                [columns EXCEPT ![component_id].slots[EntityIndex(entity) + 1] = component]]

replace_entity_component(w, entity, component_id, component) ==
    add_entity_component(erase_entity_component(w, entity, component_id),
                         entity, component_id, component)

\* the value behind the pointer TableStorage::get_component returns
storage_get_component(w, entity, component_id) ==
    IF component_id \notin DOMAIN w.columns \/ ~(EntityIndex(entity) < w.columns[component_id].len)
    THEN "panic"
    ELSE w.columns[component_id].slots[EntityIndex(entity) + 1]

(***************************************************************************)
(* ArchetypeManager.                                                       *)
(***************************************************************************)
\* archetype_of: [world, id]
archetype_of(w, ids) ==
    LET id == ArchetypeHash(ids)
    IN  [world |-> IF id \in DOMAIN w.archetypes THEN w
                   ELSE [w EXCEPT !.archetypes =
                            (id :> [components |-> {ids[i] : i \in 1..Len(ids)},
                                    entities |-> <<>>]) @@ @],
         id |-> id]

includes_fully(self, other) == \A component \in other.components : component \in self.components

(***************************************************************************)
(* WorldContainer.                                                         *)
(***************************************************************************)
get_registration(w, type) == [w EXCEPT !.registrations = @ \cup {type}]

WorldContainer_new_entity(w) ==
    LET a == allocate_id(w)
    IN  [world |-> register_new_entity(new_with_id(a.world, a.id)), id |-> a.id]

update_entity_archetype(w, entity) ==
    IF EntityAllocator_entity_info(w, entity) = None
    THEN Panic(w, "Failed to find entity")
    ELSE LET entity_info == Unwrap(EntityAllocator_entity_info(w, entity))
             w1 == IF entity_info.archetype_id \in DOMAIN w.archetypes
                   THEN [w EXCEPT !.archetypes[entity_info.archetype_id].entities =
                            EntitySetRemove(@, entity)]
                   ELSE w
             a == archetype_of(w1, entity_info.components)
             w2 == SetEntityInfo(a.world, entity, [entity_info EXCEPT !.archetype_id = a.id])
         IN  [w2 EXCEPT !.archetypes[a.id].entities = EntitySetInsert(@, entity, "()")]

add_component(w0, entity, C, component) ==
    LET w == get_registration(w0, C)
    IN  IF EntityAllocator_entity_info(w, entity) = None
        THEN Panic(w, "Failed to find entity")
        ELSE LET entity_info == Unwrap(EntityAllocator_entity_info(w, entity))
             IN  IF ComponentsContains(entity_info.components, C)
                 THEN replace_entity_component(w, entity, C, component)
                 ELSE add_entity_component(
                        update_entity_archetype(
                            SetEntityInfo(w, entity,
                                [entity_info EXCEPT !.components = Append(@, C)]),
                            entity),
                        entity, C, component)

remove_component_untyped(w, entity, component_id) ==
    LET entity_info == Unwrap(EntityAllocator_entity_info(w, entity))
    IN  IF ComponentsContains(entity_info.components, component_id)
        THEN LET w1 == erase_entity_component(w, entity, component_id)
             IN  SetEntityInfo(w1, entity,
                    [entity_info EXCEPT !.components = ComponentsRemove(@, component_id)])
        ELSE w

remove_component(w0, entity, C) ==
    LET w == get_registration(w0, C)
    IN  IF EntityAllocator_entity_info(w, entity) # None
        THEN update_entity_archetype(remove_component_untyped(w, entity, C), entity)
        ELSE w

RECURSIVE RemoveAllComponents(_, _, _, _)
RemoveAllComponents(w, entity, components, i) ==
    IF i > Len(components) THEN w
    ELSE RemoveAllComponents(remove_component_untyped(w, entity, components[i]),
                             entity, components, i + 1)

\* remove_entity that looks the entity up by its index alone
remove_entity_any_generation(w, entity) ==
    IF EntityAllocator_entity_info_unfiltered(w, entity) # None
    THEN destroy_entity(
            [w EXCEPT !.entity_info[EntityPos(w.entity_info, entity)][2].components = <<>>],
            entity)
    ELSE w

remove_entity(w, entity) ==
    IF EntityAllocator_entity_info(w, entity) # None
    THEN LET components == Unwrap(EntityAllocator_entity_info(w, entity)).components
         IN  destroy_entity(RemoveAllComponents(w, entity, components, 1), entity)
    ELSE w

\* Drop for WorldContainer: remove_entity on every entity there is
RECURSIVE RemoveEntities(_, _, _)
RemoveEntities(w, entities, i) ==
    IF i > Len(entities) THEN w
    ELSE RemoveEntities(remove_entity(w, entities[i][1]), entities, i + 1)

WorldContainer_drop(w) == RemoveEntities(w, w.entity_info, 1)

(***************************************************************************)
(* The destructors a call runs.  The only place a destructor of a          *)
(* component runs is ErasedVec::drop_at, reached through                    *)
(* erase_entity_component; Drop for ErasedVec frees the allocation and     *)
(* runs no destructor.  Each operator gives the values dropped by the call *)
(* on the world w, in order.                                               *)
(***************************************************************************)
\* ErasedVec::drop_at on the slot of the entity: what the slot holds
drop_at(w, entity, component_id) ==
    IF storage_get_component(w, entity, component_id) = "panic" THEN <<>>
    ELSE <<storage_get_component(w, entity, component_id)>>

\* a removal that leaves the value in its slot without dropping it
remove_component_untyped_forgetting(w, entity, component_id) == <<>>

remove_component_untyped_dropped(w, entity, component_id) ==
    IF ComponentsContains(Unwrap(EntityAllocator_entity_info(w, entity)).components,
                          component_id)
    THEN drop_at(w, entity, component_id)
    ELSE <<>>

add_component_dropped(w, entity, C) ==
    IF EntityAllocator_entity_info(w, entity) = None THEN <<>>
    ELSE IF ComponentsContains(Unwrap(EntityAllocator_entity_info(w, entity)).components, C)
    THEN drop_at(w, entity, C)
    ELSE <<>>

remove_component_dropped(w, entity, C) ==
    IF EntityAllocator_entity_info(w, entity) # None
    THEN remove_component_untyped_dropped(w, entity, C)
    ELSE <<>>

RECURSIVE RemoveAllComponents_dropped(_, _, _, _)
RemoveAllComponents_dropped(w, entity, components, i) ==
    IF i > Len(components) THEN <<>>
    ELSE remove_component_untyped_dropped(w, entity, components[i])
         \o RemoveAllComponents_dropped(
                remove_component_untyped(w, entity, components[i]), entity, components, i + 1)

remove_entity_dropped(w, entity) ==
    IF EntityAllocator_entity_info(w, entity) # None
    THEN RemoveAllComponents_dropped(
            w, entity, Unwrap(EntityAllocator_entity_info(w, entity)).components, 1)
    ELSE <<>>

RECURSIVE WorldContainer_drop_dropped(_, _, _)
WorldContainer_drop_dropped(w, entities, i) ==
    IF i > Len(entities) THEN <<>>
    ELSE remove_entity_dropped(w, entities[i][1])
         \o WorldContainer_drop_dropped(remove_entity(w, entities[i][1]), entities, i + 1)

\* get_component: Some(value) or None
get_component(w, entity, T) ==
    IF T \notin w.registrations THEN None
    ELSE LET has_component ==
                 /\ EntityAllocator_entity_info(w, entity) # None
                 /\ ComponentsContains(
                        Unwrap(EntityAllocator_entity_info(w, entity)).components, T)
         IN  IF has_component THEN Some(storage_get_component(w, entity, T)) ELSE None

\* iter_all_entities: the <<handle, info>> pairs in the order of the dense vector
iter_all_entities(w) == w.entity_info

WorldContainer_new ==
    [registrations |-> SendResources \cup NonSendResources,
     next_entity_id |-> 0,
     entity_info |-> <<>>,
     dropped_entities |-> <<>>,
     columns |-> <<>>,
     num_entities |-> 0,
     archetypes |-> <<>>,
     panic |-> NoPanic]

(***************************************************************************)
(* The state every parameter of a system keeps, and System::init.          *)
(***************************************************************************)
\* the state of a parameter that keeps none: ()
UnitState == <<>>

RECURSIVE RegisterTerms(_, _, _)
RegisterTerms(w, terms, i) ==
    IF i > Len(terms) THEN w
    ELSE RegisterTerms(IF terms[i] = EntityTerm THEN w ELSE get_registration(w, terms[i][1]),
                       terms, i + 1)

QueryTwicePanic == "Query accesses twice the same component type! This is not allowed"

\* a walk of the terms in which insert never reports the id as held
insert_always_fresh(terms) == FALSE

\* QueryParam::compute_component_set of the terms ends in its panic: the
\* insert of a term finds the id in the set, put there by an earlier term
compute_component_set_panics(terms) ==
    \E i, j \in 1..Len(terms) :
        /\ i < j
        /\ terms[i] # EntityTerm /\ terms[j] # EntityTerm
        /\ terms[i][1] = terms[j][1]

IntoSystemPanic == "If a system has a parameter of &mut WorldContainer, then that parameter must be the only parameter"

HAS_WORLD(params) == \E i \in 1..Len(params) : params[i].kind = "World"
NUM_PARAMS(params) == Len(params)

\* a conversion that accepts every parameter list
into_system_unchecked(params) == NoPanic

\* IntoSystem::into_system: the panic it ends in, NoPanic when it returns
into_system(params) ==
    IF HAS_WORLD(params) /\ NUM_PARAMS(params) > 1 THEN IntoSystemPanic ELSE NoPanic

\* SystemParam::create_initial_state: [world, state]
create_initial_state(w, p) ==
    IF p.kind = "Query"
    THEN LET component_set == compute_component_set(p.terms, 1, <<>>)
             a == archetype_of(RegisterTerms(w, p.terms, 1),
                               [i \in 1..Len(component_set) |-> component_set[i][1]])
         IN  [world |-> a.world,
              state |-> [entities |-> {}, query_archetype |-> a.id]]
    ELSE [world |-> w, state |-> UnitState]

\* <Query as SystemParam>::on_entity_changed: [state, panic]
Query_on_entity_changed(state, w, entity, info) ==
    IF state.query_archetype \notin DOMAIN w.archetypes
    THEN [state |-> state, panic |-> "Failed to get system archetype"]
    ELSE IF info.archetype_id \notin DOMAIN w.archetypes
    THEN [state |-> state, panic |-> "Failed to get archetype for entity"]
    ELSE LET system_archetype == w.archetypes[state.query_archetype]
             entity_archetype == w.archetypes[info.archetype_id]
         IN  [state |-> IF includes_fully(entity_archetype, system_archetype)
                        THEN [state EXCEPT !.entities = @ \cup {entity}]
                        ELSE [state EXCEPT !.entities = @ \ {entity}],
              panic |-> NoPanic]

\* the removal of a destroyed entity from the cache of a query
Query_on_entity_destroyed(state, w, entity) ==
    [state EXCEPT !.entities = @ \ {entity}]

\* System::on_entity_changed: the parameters in their order; [state, panic]
RECURSIVE System_on_entity_changed(_, _, _, _, _, _)
System_on_entity_changed(params, state, i, w, entity, info) ==
    IF i > Len(params) THEN [state |-> state, panic |-> NoPanic]
    ELSE IF params[i].kind # "Query"
    THEN System_on_entity_changed(params, state, i + 1, w, entity, info)
    ELSE LET r == Query_on_entity_changed(state[i], w, entity, info)
         IN  IF r.panic # NoPanic THEN [state |-> state, panic |-> r.panic]
             ELSE System_on_entity_changed(params, [state EXCEPT ![i] = r.state],
                                           i + 1, w, entity, info)

System_on_entity_destroyed(params, state, w, entity) ==
    [i \in 1..Len(params) |->
        IF params[i].kind = "Query"
        THEN Query_on_entity_destroyed(state[i], w, entity)
        ELSE state[i]]

RECURSIVE CreateStates(_, _, _, _)
CreateStates(w, params, i, state) ==
    IF i > Len(params) THEN [world |-> w, state |-> state]
    ELSE LET r == create_initial_state(w, params[i])
         IN  CreateStates(r.world, params, i + 1, Append(state, r.state))

RECURSIVE InitEntities(_, _, _, _)
InitEntities(w, params, state, i) ==
    IF i > Len(iter_all_entities(w)) THEN [state |-> state, panic |-> NoPanic]
    ELSE LET r == System_on_entity_changed(params, state, 1, w,
                                           iter_all_entities(w)[i][1],
                                           iter_all_entities(w)[i][2])
         IN  IF r.panic # NoPanic THEN r
             ELSE InitEntities(w, params, r.state, i + 1)

\* System::init: [world, state]; the world carries the panic if there is one
System_init(w, params) ==
    LET c == CreateStates(w, params, 1, <<>>)
        r == InitEntities(c.world, params, c.state, 1)
    IN  IF \E i \in 1..Len(params) :
              params[i].kind = "Query" /\ compute_component_set_panics(params[i].terms)
        THEN [world |-> Panic(w, QueryTwicePanic), state |-> <<>>]
        ELSE [world |-> IF r.panic # NoPanic THEN Panic(c.world, r.panic) ELSE c.world,
              state |-> r.state]

\* GraphScheduler::on_entity_updated on the nodes sys: [systems, panic]
RECURSIVE NotifyChanged(_, _, _, _, _)
NotifyChanged(sys, i, w, entity, info) ==
    IF i > Len(sys) THEN [systems |-> sys, panic |-> NoPanic]
    ELSE LET r == System_on_entity_changed(sys[i].params, sys[i].state, 1, w, entity, info)
         IN  IF r.panic # NoPanic THEN [systems |-> sys, panic |-> r.panic]
             ELSE NotifyChanged([sys EXCEPT ![i].state = r.state], i + 1, w, entity, info)

on_entity_updated(sys, w, entity) ==
    IF EntityAllocator_entity_info(w, entity) # None
    THEN NotifyChanged(sys, 1, w, entity, Unwrap(EntityAllocator_entity_info(w, entity)))
    ELSE [systems |-> [i \in 1..Len(sys) |->
                          [sys[i] EXCEPT !.state =
                              System_on_entity_destroyed(sys[i].params, @, w, entity)]],
          panic |-> NoPanic]

\* the panics of WorldContainer::get_component_unsafe
UnwrapNonePanic == "called Option::unwrap() on a None value"
AssertContainsPanic == "assertion failed: entity_info.contains(&component_id)"

\* WorldContainer::get_component_unsafe and get_component_mut_unsafe: the
\* panic the call ends in, NoPanic when it returns the pointer
get_component_unsafe(w, entity, component_id) ==
    IF EntityAllocator_entity_info(w, entity) = None THEN UnwrapNonePanic
    ELSE IF ~ComponentsContains(Unwrap(EntityAllocator_entity_info(w, entity)).components,
                                component_id)
    THEN AssertContainsPanic
    ELSE NoPanic

\* QueryParam::extract of the terms from i on, in their order
RECURSIVE extract(_, _, _, _)
extract(w, terms, i, entity) ==
    IF i > Len(terms) THEN NoPanic
    ELSE IF terms[i] = EntityTerm THEN extract(w, terms, i + 1, entity)
    ELSE IF get_component_unsafe(w, entity, terms[i][1]) # NoPanic
    THEN get_component_unsafe(w, entity, terms[i][1])
    ELSE extract(w, terms, i + 1, entity)

\* QueryIterator::next over the whole cached set: the panics the iteration
\* can end in, one for each entity whose extraction panics
QueryIterator_panics(w, p, state) ==
    {extract(w, p.terms, 1, entity) : entity \in state.entities} \ {NoPanic}

\* System::run with a body that iterates every query of the system
System_run_panics(w, sys) ==
    UNION {QueryIterator_panics(w, sys.params[i], sys.state[i]) :
              i \in {j \in 1..Len(sys.params) : sys.params[j].kind = "Query"}}

(***************************************************************************)
(* Part 3: the resources of the container, src/src/resources.rs.  A        *)
(* Resources<SEND> registry maps a ComponentId to its ResourceData: the    *)
(* value and, for a non-send resource, the thread that created it.  The    *)
(* three resource fields of the WorldContainer form one record; a call     *)
(* made on thread `thread` maps it to [resources, dropped, ptr, panic].    *)
(***************************************************************************)
\* thread ids: the thread that owns the world, and a thread of the pool
ResThreads == {"caller", "pool"}
ResourceTypes == SendResources \cup NonSendResources

ResourcePanic == "Tried to read/write non SEND resource from a thread that does not own it. Panicking"

ResourceData_new(SEND, resource, thread) ==
    [value |-> resource, original_creator |-> IF SEND THEN None ELSE Some(thread)]

\* a check that lets every thread through
validate_access_of_any_thread(SEND, data, thread) == TRUE

\* ResourceData::validate_access: TRUE when it returns, FALSE when it panics
ResourceData_validate_access(SEND, data, thread) ==
    ~(/\ ~SEND
      /\ data.original_creator # None
      /\ Unwrap(data.original_creator) # thread)

\* Resources::add: [registry, dropped, panic]
Resources_add(SEND, registry, id, resource, thread) ==
    IF id \in DOMAIN registry
    THEN IF ~ResourceData_validate_access(SEND, registry[id], thread)
         THEN [registry |-> registry, dropped |-> <<>>, panic |-> ResourcePanic]
         ELSE [registry |-> [registry EXCEPT ![id].value = resource],
               dropped |-> <<registry[id].value>>, panic |-> NoPanic]
    ELSE [registry |-> (id :> ResourceData_new(SEND, resource, thread)) @@ registry,
          dropped |-> <<>>, panic |-> NoPanic]

\* Resources::get_ptr: [ptr, panic]
Resources_get_ptr(SEND, registry, id, thread) ==
    IF id \notin DOMAIN registry THEN [ptr |-> None, panic |-> NoPanic]
    ELSE IF ~ResourceData_validate_access(SEND, registry[id], thread)
    THEN [ptr |-> None, panic |-> ResourcePanic]
    ELSE [ptr |-> Some(registry[id].value), panic |-> NoPanic]

\* Resources::get_mut_ptr: [ptr, panic]
Resources_get_mut_ptr(SEND, registry, id, thread) ==
    IF id \notin DOMAIN registry THEN [ptr |-> None, panic |-> NoPanic]
    ELSE IF ~ResourceData_validate_access(SEND, registry[id], thread)
    THEN [ptr |-> None, panic |-> ResourcePanic]
    ELSE [ptr |-> Some(registry[id].value), panic |-> NoPanic]

Resources_new ==
    [send_resources |-> <<>>, non_send_resources |-> <<>>, resource_sendness |-> <<>>]

\* WorldContainer::add_resource: [resources, dropped, ptr, panic]
add_resource(res, R, resource, thread) ==
    LET r == Resources_add(TRUE, res.send_resources, R, resource, thread)
    IN  [resources |-> [res EXCEPT !.resource_sendness = (R :> TRUE) @@ @,
                                   !.send_resources = r.registry],
         dropped |-> r.dropped, ptr |-> None, panic |-> r.panic]

\* WorldContainer::add_non_send_resource
add_non_send_resource(res, R, resource, thread) ==
    LET r == Resources_add(FALSE, res.non_send_resources, R, resource, thread)
    IN  [resources |-> [res EXCEPT !.resource_sendness = (R :> FALSE) @@ @,
                                   !.non_send_resources = r.registry],
         dropped |-> r.dropped, ptr |-> None, panic |-> r.panic]

\* WorldContainer::get_resource
get_resource(res, R, thread) ==
    LET r == IF R \notin DOMAIN res.resource_sendness THEN [ptr |-> None, panic |-> NoPanic]
             ELSE IF res.resource_sendness[R]
             THEN Resources_get_ptr(TRUE, res.send_resources, R, thread)
             ELSE Resources_get_ptr(FALSE, res.non_send_resources, R, thread)
    IN  [resources |-> res, dropped |-> <<>>, ptr |-> r.ptr, panic |-> r.panic]

\* WorldContainer::get_resource_mut
get_resource_mut(res, R, thread) ==
    LET r == IF R \notin DOMAIN res.resource_sendness THEN [ptr |-> None, panic |-> NoPanic]
             ELSE IF res.resource_sendness[R]
             THEN Resources_get_mut_ptr(TRUE, res.send_resources, R, thread)
             ELSE Resources_get_mut_ptr(FALSE, res.non_send_resources, R, thread)
    IN  [resources |-> res, dropped |-> <<>>, ptr |-> r.ptr, panic |-> r.panic]

\* no call on the resources was made yet
NoAccess == <<>>

(***************************************************************************)
(* Part 4: SparseSet<I, T> of src/src/sparse_set.rs with its two vectors:  *)
(* dense holds the <<index, value>> pairs, sparse maps an index to its     *)
(* position in dense.  Positions count from 0 as in the source; every      *)
(* operation maps a set to [set, ret].                                     *)
(***************************************************************************)
\* usize::MAX, the filler of SparseSet::ensure_capacity_for: the largest
\* position there is, above the length of every vector
UsizeMax == 2147483647

SparseSet_new == [dense |-> <<>>, sparse |-> <<>>]

SparseSet_len(set) == Len(set.dense)

\* SparseSet::get_key: Some(position in dense) or None
SparseSet_get_key(set, index) ==
    IF index >= Len(set.sparse) THEN None
    ELSE LET key_index == set.sparse[index + 1]
         IN  IF key_index >= Len(set.dense) THEN None
             ELSE IF index = set.dense[key_index + 1][1] THEN Some(key_index)
             ELSE None

\* SparseSet::ensure_capacity_for: the sparse vector after the resize
ensure_capacity_for(sparse, index) ==
    IF Len(sparse) <= index
    THEN sparse \o [i \in 1..(index + 1 - Len(sparse)) |-> UsizeMax]
    ELSE sparse

\* SparseSet::get: Some(value) or None
SparseSet_get(set, index) ==
    IF SparseSet_get_key(set, index) = None THEN None
    ELSE Some(set.dense[Unwrap(SparseSet_get_key(set, index)) + 1][2])

SparseSet_contains(set, index) == SparseSet_get(set, index) # None

\* the vector with the element at position i (from 1) replaced
VecSet(vec, i, x) == SubSeq(vec, 1, i - 1) \o <<x>> \o SubSeq(vec, i + 1, Len(vec))

\* SparseSet::insert
SparseSet_insert(set, index, value) ==
    IF SparseSet_get_key(set, index) # None
    THEN [set |-> [set EXCEPT !.dense =
                      VecSet(@, Unwrap(SparseSet_get_key(set, index)) + 1, <<index, value>>)],
          ret |-> FALSE]
    ELSE LET len == SparseSet_len(set)
         IN  [set |-> [dense |-> Append(set.dense, <<index, value>>),
                       sparse |-> VecSet(ensure_capacity_for(set.sparse, index),
                                         index + 1, len)],
              ret |-> TRUE]

\* a removal that pops the last element without moving it into the gap
SparseSet_remove_without_swap(set, index) ==
    IF SparseSet_get(set, index) # None
    THEN [set |-> [set EXCEPT !.dense = SubSeq(@, 1, Len(@) - 1)], ret |-> TRUE]
    ELSE [set |-> set, ret |-> FALSE]

\* SparseSet::remove
SparseSet_remove(set, index) ==
    IF SparseSet_get(set, index) # None
    THEN LET n == Len(set.dense) - 1
             index_addr == set.sparse[index + 1]
             old_index == set.dense[n + 1][1]
             swapped == VecSet(VecSet(set.dense, index_addr + 1, set.dense[n + 1]),
                               n + 1, set.dense[index_addr + 1])
         IN  [set |-> [dense |-> SubSeq(swapped, 1, n),
                       sparse |-> VecSet(set.sparse, old_index + 1, index_addr)],
              ret |-> TRUE]
    ELSE [set |-> set, ret |-> FALSE]

\* SparseSet::iter: the indices in the order of the dense vector
SparseSet_iter(set) == [i \in 1..Len(set.dense) |-> set.dense[i][1]]

\* SparseSet::clear
SparseSet_clear(set) == [set |-> [set EXCEPT !.dense = <<>>], ret |-> TRUE]

(***************************************************************************)
(* State of the scheduler and of the values the systems work on.           *)
(***************************************************************************)
VARIABLES
    world,                 \* the WorldContainer
    added,                 \* <<entity, component>> -> the value added last, if it stands
    calls,                 \* number of calls made on the entities of the world
    alloc_pc,              \* per thread: its position inside allocate_id
    in_flight,             \* handles allocate_id returned that await registration
    returned,              \* the handles the allocator returned, in order
    channel,               \* the command queue: commands sent and not yet received
    update_pc,             \* "idle" or "running" (inside update, past the drain)
    updates,               \* number of update calls entered
    built,                 \* per thread: the handle EntityBuilder::build allocated and has not sent
    sent,                  \* number of commands sent
    drained,               \* the commands the last drain took, in the order it applied them
    snapshot,              \* what the queries could see when the last drain ended
    destroyed,             \* handles a DestroyEntity command was applied to
    resources,             \* send_resources, non_send_resources, resource_sendness of the container
    drops,                 \* the resource values whose destructor ran, in order
    accesses,                \* the calls on the resources and what each returned
    sparse_set,            \* a SparseSet<usize, T>: its dense and sparse vectors
    set_calls,             \* the calls made on sparse_set: what each was given and returned
    lifetime,              \* the component values stored and those whose destructor ran
    erased_vec,            \* an ErasedVec: its len, capacity and slots
    vec_calls,             \* the calls made on erased_vec, with the vector before each
    schedule_loop,         \* compute_schedule run wave by wave: its locals
    systems,               \* graph nodes 1..n: [params, state, dependencies, exclusive]
    graph_edges,           \* set of [source, target, changes]
    current_dependencies,  \* ComponentId -> GraphResourceOwnership
    changed_schedule,
    cached_schedule,       \* Schedules.groups: sequence of job sequences
    pc,                    \* "idle" or "running" (inside execute)
    layer,                 \* index of the group execute is dispatching
    started,               \* jobs of the current group that began to run
    finished,              \* jobs of the current group that returned
    ran,                   \* per system: completed runs in the current execute
    val,                   \* DataIds -> value
    val0,                  \* val when the current execute was entered
    executes,              \* number of completed execute calls
    on_pool                \* jobs of the current group that run on a thread of the pool

schedVars == <<systems, graph_edges, current_dependencies, changed_schedule,
               cached_schedule, pc, layer, started, finished, ran,
               val, val0, executes, on_pool>>

worldVars == <<world, added, calls>>

allocVars == <<alloc_pc, in_flight, returned>>

cmdVars == <<channel, update_pc, updates, built, sent, drained, snapshot, destroyed>>

resVars == <<resources, drops, accesses>>
dataVars == <<sparse_set, set_calls, lifetime, erased_vec, vec_calls, schedule_loop>>

vars == <<world, added, calls, alloc_pc, in_flight, returned,
          channel, update_pc, updates, built, sent, drained, snapshot, destroyed,
          resources, drops, accesses, sparse_set, set_calls,
          lifetime, erased_vec, vec_calls, schedule_loop,
          systems, graph_edges, current_dependencies, changed_schedule,
          cached_schedule, pc, layer, started, finished, ran,
          val, val0, executes, on_pool>>

NodeIndices == 0..Len(systems)
SystemIds == 1..Len(systems)

Targets(edges, node) == {e.target : e \in {x \in edges : x.source = node}}
Sources(edges, node) == {e.source : e \in {x \in edges : x.target = node}}

(***************************************************************************)
(* GraphScheduler::compute_schedule.  current_jobs is a HashSet, so the    *)
(* order in which one wave visits its jobs is not fixed: the operator      *)
(* yields the set of plans the loop can produce.                           *)
(***************************************************************************)
RECURSIVE VisitJobs(_, _, _, _, _)
VisitJobs(edges, remaining, previous_scheduled_nodes, next_jobs, current_schedule) ==
    IF remaining = {}
    THEN {<<previous_scheduled_nodes, next_jobs, current_schedule>>}
    ELSE UNION {
        LET all_parents_scheduled == Sources(edges, job) \subseteq previous_scheduled_nodes
        IN  IF all_parents_scheduled
            THEN VisitJobs(edges, remaining \ {job},
                           previous_scheduled_nodes \cup {job},
                           next_jobs \cup Targets(edges, job),
                           Append(current_schedule, job))
            ELSE VisitJobs(edges, remaining \ {job},
                           previous_scheduled_nodes, next_jobs, current_schedule)
        : job \in remaining }

RECURSIVE Waves(_, _, _, _)
Waves(edges, previous_scheduled_nodes, current_jobs, schedules) ==
    IF current_jobs = {}
    THEN {schedules}
    ELSE UNION {
        Waves(edges, r[1], r[2],
              IF r[3] # <<>> THEN Append(schedules, r[3]) ELSE schedules)
        : r \in VisitJobs(edges, current_jobs, previous_scheduled_nodes, {}, <<>>) }

compute_schedule(edges) ==
    Waves(edges, {root_node_idx}, Targets(edges, root_node_idx), <<>>)

(***************************************************************************)
(* GraphScheduler::add_system and its helpers.                             *)
(***************************************************************************)
\* a placement whose leaf filter lets the new node itself through
place_system_dependency_on_leaves_and_self(system_node_idx) ==
    LET leaves == {node \in 0..system_node_idx : Targets(graph_edges, node) = {}}
    IN  /\ graph_edges' = graph_edges \cup
              {[source |-> leaf, target |-> system_node_idx, changes |-> <<>>] : leaf \in leaves}
        /\ current_dependencies' =
              [c \in DOMAIN current_dependencies |->
                  [access_mode |-> Write, last_accessing |-> {},
                   last_writing |-> {system_node_idx}]]

place_system_dependency_on_leaves(system_node_idx) ==
    LET leaves == {node \in 0..system_node_idx :
                      node # system_node_idx /\ Targets(graph_edges, node) = {}}
    IN  /\ graph_edges' = graph_edges \cup
              {[source |-> leaf, target |-> system_node_idx, changes |-> <<>>] : leaf \in leaves}
        /\ current_dependencies' =
              [c \in DOMAIN current_dependencies |->
                  [access_mode |-> Write, last_accessing |-> {},
                   last_writing |-> {system_node_idx}]]

RECURSIVE compute_node_dependencies(_, _, _)
compute_node_dependencies(system_dependencies, i, node_dependencies) ==
    IF i > Len(system_dependencies) THEN node_dependencies
    ELSE LET component == system_dependencies[i][1]
             access == system_dependencies[i][2]
             edge == <<<<component, access>>>>
         IN  IF component \notin DOMAIN current_dependencies
             THEN compute_node_dependencies(system_dependencies, i + 1, node_dependencies)
             ELSE LET ownership == current_dependencies[component]
                      owners == IF access = Write
                                THEN IF ownership.last_accessing = {}
                                     THEN ownership.last_writing
                                     ELSE ownership.last_accessing
                                ELSE ownership.last_writing
                  IN  compute_node_dependencies(system_dependencies, i + 1,
                          [o \in owners |-> edge] @@ node_dependencies)

\* a placement that hangs the system under the node added just before it
place_system_after_previous(system_dependencies, system_node_idx) ==
    /\ current_dependencies' =
          [c \in DOMAIN current_dependencies \cup SparseKeys(system_dependencies) |->
              IF c \in SparseKeys(system_dependencies)
              THEN LET access == SparseGet(system_dependencies, c)
                   IN  [access_mode |-> access,
                        last_accessing |-> IF access = Read THEN {system_node_idx} ELSE {},
                        last_writing |-> IF access = Write THEN {system_node_idx} ELSE {}]
              ELSE current_dependencies[c]]
    /\ graph_edges' = graph_edges \cup
          {[source |-> system_node_idx - 1, target |-> system_node_idx, changes |-> <<>>]}

place_system_at_graph_begin(system_dependencies, system_node_idx) ==
    /\ current_dependencies' =
          [c \in DOMAIN current_dependencies \cup SparseKeys(system_dependencies) |->
              IF c \in SparseKeys(system_dependencies)
              THEN LET access == SparseGet(system_dependencies, c)
                   IN  [access_mode |-> access,
                        last_accessing |-> IF access = Read THEN {system_node_idx} ELSE {},
                        last_writing |-> IF access = Write THEN {system_node_idx} ELSE {}]
              ELSE current_dependencies[c]]
    /\ graph_edges' = graph_edges \cup
          {[source |-> root_node_idx, target |-> system_node_idx, changes |-> <<>>]}

\* the ownership record after the changes of the edges from `owners` are applied
RECURSIVE ApplyChanges(_, _, _, _)
ApplyChanges(node_dependencies, owners, system_node_idx, deps) ==
    IF owners = {} THEN deps
    ELSE LET owner == CHOOSE o \in owners : TRUE
             change == node_dependencies[owner][1]
             dep == deps[change[1]]
             newDep == IF change[2] = Read
                       THEN [access_mode |-> Read,
                             last_accessing |-> dep.last_accessing \cup {system_node_idx},
                             last_writing |-> dep.last_writing]
                       ELSE [access_mode |-> Write,
                             last_accessing |-> {},
                             last_writing |-> {system_node_idx}]
         IN  ApplyChanges(node_dependencies, owners \ {owner}, system_node_idx,
                          [deps EXCEPT ![change[1]] = newDep])

place_system_dependencies(node_dependencies, system_node_idx) ==
    /\ current_dependencies' =
          ApplyChanges(node_dependencies, DOMAIN node_dependencies,
                       system_node_idx, current_dependencies)
    /\ graph_edges' = graph_edges \cup
          {[source |-> owner, target |-> system_node_idx,
            changes |-> node_dependencies[owner]] : owner \in DOMAIN node_dependencies}

add_system(params) ==
    LET init == IF into_system(params) # NoPanic
                THEN [world |-> Panic(world, into_system(params)), state |-> <<>>]
                ELSE System_init(world, params)
        system_is_exclusive == is_exclusive(params)
        system_dependencies == compute_dependencies(params, 1, <<>>)
        system_node_idx == Len(systems) + 1
    IN  /\ pc = "idle"
        /\ world.panic = NoPanic
        /\ world' = init.world
        /\ IF init.world.panic # NoPanic
           THEN UNCHANGED <<resVars, dataVars, cmdVars, alloc_pc, in_flight, returned, added, calls, schedVars>>
           ELSE
               /\ systems' = Append(systems, [params |-> params,
                                              state |-> init.state,
                                              dependencies |-> system_dependencies,
                                              exclusive |-> system_is_exclusive])
               /\ IF system_is_exclusive
                  THEN place_system_dependency_on_leaves(system_node_idx)
                  ELSE LET node_dependencies ==
                               compute_node_dependencies(system_dependencies, 1, <<>>)
                       IN  IF DOMAIN node_dependencies = {}
                           THEN place_system_at_graph_begin(system_dependencies, system_node_idx)
                           ELSE place_system_dependencies(node_dependencies, system_node_idx)
               /\ changed_schedule' = TRUE
               /\ ran' = Append(ran, 0)
               /\ UNCHANGED <<resVars, dataVars, cmdVars, alloc_pc, in_flight, returned, added, calls, cached_schedule, pc, layer, started, finished,
                              val, val0, executes, on_pool>>

SchedInit ==
    /\ world = WorldContainer_new
    /\ added = <<>>
    /\ calls = 0
    /\ alloc_pc = [t \in Threads |-> "idle"]
    /\ in_flight = {}
    /\ returned = <<>>
    /\ channel = <<>>
    /\ update_pc = "idle"
    /\ updates = 0
    /\ built = [t \in Threads |-> None]
    /\ sent = 0
    /\ drained = <<>>
    /\ snapshot = <<>>
    /\ destroyed = {}
    /\ resources = Resources_new
    /\ drops = <<>>
    /\ accesses = NoAccess
    /\ sparse_set = SparseSet_new
    /\ set_calls = <<>>
    /\ lifetime = [stored |-> <<>>, dropped |-> <<>>, world_dropped |-> FALSE]
    /\ erased_vec = ErasedVec_new(0)
    /\ vec_calls = <<>>
    /\ schedule_loop = [pc |-> "idle", previous_scheduled_nodes |-> {}, current_jobs |-> {},
                        schedules |-> <<>>]
    /\ systems = <<>>
    /\ graph_edges = {}
    /\ current_dependencies = <<>>
    /\ changed_schedule = TRUE
    /\ cached_schedule = <<>>
    /\ pc = "idle"
    /\ layer = 0
    /\ started = {}
    /\ finished = {}
    /\ ran = <<>>
    /\ val = [d \in DataIds |-> <<>>]
    /\ val0 = [d \in DataIds |-> <<>>]
    /\ executes = 0
    /\ on_pool = {}

(***************************************************************************)
(* What running a system does.  A system is taken in its most general     *)
(* form: every value it may write becomes a term built from the system     *)
(* and every value it may read.                                            *)
(***************************************************************************)
Param_writes(p) ==
    CASE p.kind = "Query" -> {p.terms[i][1] : i \in {k \in 1..Len(p.terms) : p.terms[k][2] = Write}}
      [] p.kind = "World" -> DataIds
      [] p.kind = "ResMut" -> {p.res}
      [] OTHER -> {}

Param_reads(p) ==
    CASE p.kind = "Query" ->
            {p.terms[i][1] : i \in {k \in 1..Len(p.terms) : p.terms[k] # EntityTerm}}
      [] p.kind = "World" -> DataIds
      [] p.kind \in {"Res", "ResMut"} -> {p.res}
      [] OTHER -> {}

Writes(params) == UNION {Param_writes(params[i]) : i \in 1..Len(params)}
Reads(params) == UNION {Param_reads(params[i]) : i \in 1..Len(params)}

RECURSIVE Observed(_, _, _)
Observed(v, ids, i) ==
    IF i > Len(DataOrder) THEN <<>>
    ELSE (IF DataOrder[i] \in ids THEN <<v[DataOrder[i]]>> ELSE <<>>)
         \o Observed(v, ids, i + 1)

\* System::run of node `job` on the values v
run(sys, job, v) ==
    [d \in DataIds |->
        IF d \in Writes(sys[job].params)
        THEN <<job, d, Observed(v, Reads(sys[job].params), 1)>>
        ELSE v[d]]

\* LinearScheduler::execute: the systems one at a time, in insertion order
RECURSIVE LinearScheduler_execute(_, _, _)
LinearScheduler_execute(sys, i, v) ==
    IF i > Len(sys) THEN v
    ELSE LinearScheduler_execute(sys, i + 1, run(sys, i, v))

(***************************************************************************)
(* GraphScheduler::execute.  The jobs of one group are dispatched on the   *)
(* worker pool: each begins and returns on its own, and the group joins    *)
(* before the next one is dispatched.                                      *)
(***************************************************************************)
JobsOf(group) == {group[i] : i \in 1..Len(group)}

\* an execute that runs the cached plan whatever was added since
execute_cached_plan ==
    /\ pc = "idle"
    /\ cached_schedule' = cached_schedule
    /\ changed_schedule' = FALSE
    /\ pc' = "running"
    /\ layer' = 1
    /\ started' = {}
    /\ finished' = {}
    /\ ran' = [s \in SystemIds |-> 0]
    /\ val0' = val
    /\ UNCHANGED <<resVars, dataVars, cmdVars, alloc_pc, in_flight, returned, world, added, calls, systems, graph_edges, current_dependencies, val, executes, on_pool>>

\* GraphScheduler::execute up to its loop: the refresh of the cached plan
execute_refresh ==
    /\ pc = "idle"
    /\ cached_schedule' \in (IF changed_schedule
                              THEN compute_schedule(graph_edges)
                              ELSE {cached_schedule})
    /\ changed_schedule' = FALSE
    /\ pc' = "running"
    /\ layer' = 1
    /\ started' = {}
    /\ finished' = {}
    /\ ran' = [s \in SystemIds |-> 0]
    /\ val0' = val
    /\ UNCHANGED <<resVars, dataVars, cmdVars, alloc_pc, in_flight, returned, world, added, calls, systems, graph_edges, current_dependencies, val, executes, on_pool>>

execute_enter == executes < MaxExecutes /\ execute_refresh

\* the threads par_iter().for_each may run a job of the group on: a group of
\* one job is not split and runs where for_each was called; the halves of a
\* split group are handed to the pool, where the caller takes part only when
\* it is a thread of the pool itself
dispatch_threads(group) ==
    IF Cardinality(JobsOf(group)) = 1 THEN {"caller"} ELSE {"caller", "pool"}

exec_system_begin(job) ==
    /\ pc = "running"
    /\ layer <= Len(cached_schedule)
    /\ job \in JobsOf(cached_schedule[layer]) \ started
    /\ started' = started \cup {job}
    /\ \E thread \in dispatch_threads(cached_schedule[layer]) :
          on_pool' = IF thread = "pool" THEN on_pool \cup {job} ELSE on_pool
    /\ UNCHANGED <<resVars, dataVars, cmdVars, alloc_pc, in_flight, returned, world, added, calls, systems, graph_edges, current_dependencies, changed_schedule,
                   cached_schedule, pc, layer, finished, ran, val, val0, executes>>

exec_system_end(job) ==
    /\ pc = "running"
    /\ job \in started \ finished
    /\ val' = run(systems, job, val)
    /\ finished' = finished \cup {job}
    /\ on_pool' = on_pool \ {job}
    /\ ran' = [ran EXCEPT ![job] = @ + 1]
    /\ UNCHANGED <<resVars, dataVars, cmdVars, alloc_pc, in_flight, returned, world, added, calls, systems, graph_edges, current_dependencies, changed_schedule,
                   cached_schedule, pc, layer, started, val0, executes>>

execute_join ==
    /\ pc = "running"
    /\ layer <= Len(cached_schedule)
    /\ finished = JobsOf(cached_schedule[layer])
    /\ layer' = layer + 1
    /\ started' = {}
    /\ finished' = {}
    /\ UNCHANGED <<resVars, dataVars, cmdVars, alloc_pc, in_flight, returned, world, added, calls, systems, graph_edges, current_dependencies, changed_schedule,
                   cached_schedule, pc, ran, val, val0, executes, on_pool>>

execute_return ==
    /\ pc = "running"
    /\ layer > Len(cached_schedule)
    /\ pc' = "idle"
    /\ executes' = executes + 1
    /\ UNCHANGED <<resVars, dataVars, cmdVars, alloc_pc, in_flight, returned, world, added, calls, systems, graph_edges, current_dependencies, changed_schedule,
                   cached_schedule, layer, started, finished, ran, val, val0, on_pool>>

(***************************************************************************)
(* Specifications.  Spec builds graphs with add_system; SpecExec also      *)
(* runs execute on them.                                                   *)
(***************************************************************************)
AddSystem == \E params \in SystemMenu : Len(systems) < MaxSystems /\ add_system(params)
ExecSystemBegin == \E job \in SystemIds : exec_system_begin(job)
ExecSystemEnd == \E job \in SystemIds : exec_system_end(job)

Init == SchedInit

Next == AddSystem

Spec == Init /\ [][Next]_vars

(***************************************************************************)
(* compute_schedule run one wave at a step on the graph add_system built:  *)
(* schedule_loop holds previous_scheduled_nodes, current_jobs and          *)
(* schedules between two rounds of the while loop.  The graph does not     *)
(* change while the loop runs.                                             *)
(***************************************************************************)
\* the most waves followed; a loop that reaches it stays where it is
MaxWaves == MaxScheduleSystems + 2

\* a loop that carries the jobs of the wave over to the next wave
current_jobs_carried_over(current_jobs, next_jobs) == current_jobs \cup next_jobs

\* current_jobs = next_jobs at the end of a round
current_jobs_after(current_jobs, next_jobs) == next_jobs

compute_schedule_begin ==
    /\ pc = "idle"
    /\ schedule_loop.pc = "idle"
    /\ schedule_loop' = [pc |-> "computing",
                         previous_scheduled_nodes |-> {root_node_idx},
                         current_jobs |-> Targets(graph_edges, root_node_idx),
                         schedules |-> <<>>]
    /\ UNCHANGED <<resVars, worldVars, allocVars, cmdVars, schedVars,
                   sparse_set, set_calls, lifetime, erased_vec, vec_calls>>

compute_schedule_wave ==
    /\ schedule_loop.pc = "computing"
    /\ schedule_loop.current_jobs # {}
    /\ Len(schedule_loop.schedules) < MaxWaves
    /\ \E r \in VisitJobs(graph_edges, schedule_loop.current_jobs,
                           schedule_loop.previous_scheduled_nodes, {}, <<>>) :
          schedule_loop' =
              [pc |-> "computing",
               previous_scheduled_nodes |-> r[1],
               current_jobs |-> current_jobs_after(schedule_loop.current_jobs, r[2]),
               schedules |-> IF r[3] # <<>> THEN Append(schedule_loop.schedules, r[3])
                             ELSE schedule_loop.schedules]
    /\ UNCHANGED <<resVars, worldVars, allocVars, cmdVars, schedVars,
                   sparse_set, set_calls, lifetime, erased_vec, vec_calls>>

compute_schedule_return ==
    /\ schedule_loop.pc = "computing"
    /\ schedule_loop.current_jobs = {}
    /\ schedule_loop' = [schedule_loop EXCEPT !.pc = "returned"]
    /\ UNCHANGED <<resVars, worldVars, allocVars, cmdVars, schedVars,
                   sparse_set, set_calls, lifetime, erased_vec, vec_calls>>

\* readers and writers of A and B, alone and together, and an exclusive system
ScheduleMenu ==
    { <<QueryParamOf(<<<<"A", Read>>>>)>>,
      <<QueryParamOf(<<<<"A", Write>>>>)>>,
      <<QueryParamOf(<<<<"A", Read>>, <<"B", Read>>>>)>>,
      <<QueryParamOf(<<<<"A", Read>>, <<"B", Write>>>>)>>,
      <<QueryParamOf(<<<<"A", Write>>, <<"B", Write>>>>)>>,
      <<WorldParam>> }

ScheduleAddSystem ==
    /\ schedule_loop.pc = "idle"
    /\ Len(systems) < MaxScheduleSystems
    /\ \E params \in ScheduleMenu : add_system(params)

NextSchedule ==
    \/ ScheduleAddSystem
    \/ compute_schedule_begin
    \/ compute_schedule_wave
    \/ compute_schedule_return

\* the loop is sequential code of the calling thread: a round that can be
\* taken is taken
SpecSchedule ==
    /\ Init
    /\ [][NextSchedule]_vars
    /\ WF_vars(compute_schedule_wave)
    /\ WF_vars(compute_schedule_return)

NextExec ==
    \/ AddSystem
    \/ execute_enter
    \/ ExecSystemBegin
    \/ ExecSystemEnd
    \/ execute_join
    \/ execute_return

SpecExec == Init /\ [][NextExec]_vars

(***************************************************************************)
(* SpecParams offers add_system parameter lists of every shape: a query    *)
(* that names a component twice and a world parameter with company too.    *)
(***************************************************************************)
\* the queries that declare one component twice
TwiceMenu ==
    {<<QueryParamOf(<<<<c, m1>>, <<c, m2>>>>)>> : c \in Components, m1, m2 \in AccessMode}

\* the parameter lists that hold the world and something else
WorldAndMoreMenu ==
    { <<WorldParam, QueryParamOf(<<<<"A", Read>>>>)>>,
      <<QueryParamOf(<<<<"A", Read>>>>), WorldParam>>,
      <<WorldParam, ResParam("R")>>,
      <<WorldParam, WorldParam>> }

ParamsMenu ==
    TwiceMenu \cup WorldAndMoreMenu
    \cup { <<WorldParam>>,
           <<QueryParamOf(<<<<"A", Read>>>>)>>,
           <<QueryParamOf(<<<<"B", Write>>>>)>>,
           <<QueryParamOf(<<<<"A", Write>>, <<"B", Read>>>>)>>,
           <<ResParam("R")>> }

AddAnySystem ==
    \E params \in ParamsMenu : Len(systems) < MaxParamSystems /\ add_system(params)

NextParams == AddAnySystem

SpecParams == Init /\ [][NextParams]_vars

(***************************************************************************)
(* SpecMerge adds systems of several parameters, in both parameter orders, *)
(* among the readers and writers they are ordered against.                 *)
(***************************************************************************)
MergeMenu ==
    { <<QueryParamOf(<<<<"A", Read>>>>), QueryParamOf(<<<<"A", Write>>>>)>>,
      <<QueryParamOf(<<<<"A", Write>>>>), QueryParamOf(<<<<"A", Read>>>>)>>,
      <<QueryParamOf(<<<<"A", Read>>>>)>>,
      <<QueryParamOf(<<<<"A", Write>>>>)>>,
      <<QueryParamOf(<<<<"B", Write>>>>)>>,
      <<QueryParamOf(<<<<"A", Read>>, <<"B", Write>>>>)>>,
      <<QueryParamOf(<<<<"A", Read>>, <<"B", Read>>>>)>> }

AddMergeSystem ==
    \E params \in MergeMenu : Len(systems) < MaxMergeSystems /\ add_system(params)

NextMerge == AddMergeSystem

SpecMerge == Init /\ [][NextMerge]_vars

(***************************************************************************)
(* SpecCache runs several executes on a graph that grows between them.     *)
(***************************************************************************)
CacheMenu ==
    { <<QueryParamOf(<<<<"A", Read>>>>)>>,
      <<QueryParamOf(<<<<"A", Write>>>>)>>,
      <<WorldParam>> }

AddCacheSystem ==
    \E params \in CacheMenu : Len(systems) < MaxCacheSystems /\ add_system(params)

ExecuteAgain == executes < MaxCacheExecutes /\ execute_refresh

NextCache ==
    \/ AddCacheSystem
    \/ ExecuteAgain
    \/ ExecSystemBegin
    \/ ExecSystemEnd
    \/ execute_join
    \/ execute_return

SpecCache == Init /\ [][NextCache]_vars

(***************************************************************************)
(* The operations on entities.  Each is the WorldContainer call followed   *)
(* by the GraphScheduler::on_entity_updated its caller owes the systems;   *)
(* new_entity is followed by none.  Handles are the ones new_entity gave   *)
(* out, the stale ones included.                                           *)
(***************************************************************************)
Absent == "absent"

Issued == {k[1] : k \in DOMAIN added}

\* the world and the systems after on_entity_updated(entity) on the world w
Updated(w, entity) ==
    LET r == on_entity_updated(systems, w, entity)
    IN  /\ world' = (IF r.panic # NoPanic THEN Panic(w, r.panic) ELSE w)
        /\ systems' = r.systems

new_entity ==
    LET r == WorldContainer_new_entity(world)
    IN  /\ pc = "idle"
        /\ world.panic = NoPanic
        /\ calls < MaxCalls
        /\ calls' = calls + 1
        /\ EntityIndex(r.id) < MaxEntities
        /\ EntityGeneration(r.id) <= MaxGeneration
        /\ world' = r.world
        /\ added' = [k \in DOMAIN added \cup ({r.id} \X Components) |->
                        IF k \in DOMAIN added THEN added[k] ELSE Absent]
        /\ returned' = Append(returned, r.id)
        /\ UNCHANGED <<resVars, dataVars, cmdVars, alloc_pc, in_flight, schedVars>>

add_component_updated(entity, C, component) ==
    LET w == add_component(world, entity, C, component)
    IN  /\ pc = "idle"
        /\ world.panic = NoPanic
        /\ calls < MaxCalls
        /\ calls' = calls + 1
        /\ IF w.panic # NoPanic
           THEN world' = w /\ UNCHANGED <<added, systems>>
           ELSE /\ Updated(w, entity)
                /\ added' = [added EXCEPT ![<<entity, C>>] = component]
        /\ UNCHANGED <<resVars, dataVars, cmdVars, alloc_pc, in_flight, returned,
                       graph_edges, current_dependencies, changed_schedule,
                       cached_schedule, pc, layer, started, finished, ran,
                       val, val0, executes, on_pool>>

remove_component_updated(entity, C) ==
    LET w == remove_component(world, entity, C)
    IN  /\ pc = "idle"
        /\ world.panic = NoPanic
        /\ calls < MaxCalls
        /\ calls' = calls + 1
        /\ IF w.panic # NoPanic
           THEN world' = w /\ UNCHANGED <<added, systems>>
           ELSE /\ Updated(w, entity)
                /\ added' = [added EXCEPT ![<<entity, C>>] = Absent]
        /\ UNCHANGED <<resVars, dataVars, cmdVars, alloc_pc, in_flight, returned,
                       graph_edges, current_dependencies, changed_schedule,
                       cached_schedule, pc, layer, started, finished, ran,
                       val, val0, executes, on_pool>>

remove_entity_updated(entity) ==
    LET w == remove_entity(world, entity)
    IN  /\ pc = "idle"
        /\ world.panic = NoPanic
        /\ calls < MaxCalls
        /\ calls' = calls + 1
        /\ IF w.panic # NoPanic
           THEN world' = w /\ UNCHANGED <<added, systems>>
           ELSE /\ Updated(w, entity)
                /\ added' = [k \in DOMAIN added |->
                                IF k[1] = entity THEN Absent ELSE added[k]]
        /\ UNCHANGED <<resVars, dataVars, cmdVars, alloc_pc, in_flight, returned,
                       graph_edges, current_dependencies, changed_schedule,
                       cached_schedule, pc, layer, started, finished, ran,
                       val, val0, executes, on_pool>>

NewEntity == new_entity
AddComponent ==
    \E entity \in Issued, C \in Components, component \in Values :
        add_component_updated(entity, C, component)
RemoveComponent ==
    \E entity \in Issued, C \in Components : remove_component_updated(entity, C)
RemoveEntity == \E entity \in Issued : remove_entity_updated(entity)

NextWorld ==
    \/ NewEntity
    \/ AddComponent
    \/ RemoveComponent
    \/ RemoveEntity

SpecWorld == Init /\ [][NextWorld]_vars

(***************************************************************************)
(* The container changed through WorldContainer alone, with no call of     *)
(* Scheduler::on_entity_updated after it: the two are separate calls, the  *)
(* caches of the queries are as the last notification left them.  Then a   *)
(* system is run over its cached sets.                                     *)
(***************************************************************************)
remove_entity_unnotified(entity) ==
    LET w == remove_entity(world, entity)
    IN  /\ pc = "idle"
        /\ world.panic = NoPanic
        /\ calls < MaxCalls
        /\ calls' = calls + 1
        /\ world' = w
        /\ added' = [k \in DOMAIN added |-> IF k[1] = entity THEN Absent ELSE added[k]]
        /\ UNCHANGED <<resVars, dataVars, cmdVars, alloc_pc, in_flight, returned, schedVars>>

remove_component_unnotified(entity, C) ==
    LET w == remove_component(world, entity, C)
    IN  /\ pc = "idle"
        /\ world.panic = NoPanic
        /\ calls < MaxCalls
        /\ calls' = calls + 1
        /\ world' = w
        /\ added' = IF w.panic # NoPanic THEN added
                    ELSE [added EXCEPT ![<<entity, C>>] = Absent]
        /\ UNCHANGED <<resVars, dataVars, cmdVars, alloc_pc, in_flight, returned, schedVars>>

System_run(s) ==
    /\ pc = "idle"
    /\ world.panic = NoPanic
    /\ calls < MaxCalls
    /\ calls' = calls + 1
    /\ IF System_run_panics(world, systems[s]) = {}
       THEN world' = world
       ELSE \E msg \in System_run_panics(world, systems[s]) : world' = Panic(world, msg)
    /\ UNCHANGED <<resVars, dataVars, cmdVars, added, alloc_pc, in_flight, returned, schedVars>>

(***************************************************************************)
(* The lifetime of the component values: every value stored is a new one,  *)
(* named by the number of the store; `lifetime` keeps the values stored    *)
(* and, in order, the values a destructor ran on.  The world is dropped    *)
(* once, and nothing is called on it after that.                           *)
(***************************************************************************)
LifetimeCall(w, dropped) ==
    /\ pc = "idle"
    /\ world.panic = NoPanic
    /\ ~lifetime.world_dropped
    /\ calls < MaxCalls
    /\ calls' = calls + 1
    /\ world' = w
    /\ lifetime' = IF w.panic # NoPanic THEN lifetime
                   ELSE [lifetime EXCEPT !.dropped = @ \o dropped]
    /\ UNCHANGED <<resVars, cmdVars, alloc_pc, in_flight, returned, schedVars,
                   sparse_set, set_calls, erased_vec, vec_calls, schedule_loop>>

LifetimeNewEntity == ~lifetime.world_dropped /\ new_entity

StoreComponent ==
    \E entity \in Issued, C \in Components :
        \E component \in {ToString(Len(lifetime.stored) + 1)} :
            /\ Len(lifetime.stored) < MaxStores
            /\ pc = "idle"
            /\ world.panic = NoPanic
            /\ ~lifetime.world_dropped
            /\ calls < MaxCalls
            /\ calls' = calls + 1
            /\ world' = add_component(world, entity, C, component)
            /\ IF world'.panic # NoPanic THEN UNCHANGED <<added, lifetime>>
               ELSE /\ added' = [added EXCEPT ![<<entity, C>>] = component]
                    /\ lifetime' = [lifetime EXCEPT
                            !.stored = Append(@, component),
                            !.dropped = @ \o add_component_dropped(world, entity, C)]
            /\ UNCHANGED <<resVars, cmdVars, alloc_pc, in_flight, returned, schedVars,
                           sparse_set, set_calls, erased_vec, vec_calls, schedule_loop>>

LifetimeRemoveComponent ==
    \E entity \in Issued, C \in Components :
        /\ LifetimeCall(remove_component(world, entity, C),
                        remove_component_dropped(get_registration(world, C), entity, C))
        /\ added' = IF world'.panic # NoPanic THEN added
                    ELSE [added EXCEPT ![<<entity, C>>] = Absent]

LifetimeRemoveEntity ==
    \E entity \in Issued :
        /\ LifetimeCall(remove_entity(world, entity), remove_entity_dropped(world, entity))
        /\ added' = IF world'.panic # NoPanic THEN added
                    ELSE [k \in DOMAIN added |-> IF k[1] = entity THEN Absent ELSE added[k]]

DropWorld ==
    /\ pc = "idle"
    /\ world.panic = NoPanic
    /\ ~lifetime.world_dropped
    /\ world' = WorldContainer_drop(world)
    /\ lifetime' = [lifetime EXCEPT
            !.dropped = @ \o WorldContainer_drop_dropped(world, world.entity_info, 1),
            !.world_dropped = TRUE]
    /\ added' = [k \in DOMAIN added |-> Absent]
    /\ UNCHANGED <<resVars, cmdVars, calls, alloc_pc, in_flight, returned, schedVars,
                   sparse_set, set_calls, erased_vec, vec_calls, schedule_loop>>

NextLifetime ==
    \/ LifetimeNewEntity
    \/ StoreComponent
    \/ LifetimeRemoveComponent
    \/ LifetimeRemoveEntity
    \/ DropWorld

SpecLifetime == Init /\ [][NextLifetime]_vars

StaleMenu ==
    { <<QueryParamOf(<<<<"A", Read>>>>)>>,
      <<QueryParamOf(<<EntityTerm, <<"B", Write>>>>)>> }

AddStaleSystem ==
    \E params \in StaleMenu : Len(systems) < MaxStaleSystems /\ add_system(params)
RemoveEntityUnnotified == \E entity \in Issued : remove_entity_unnotified(entity)
RemoveComponentUnnotified ==
    \E entity \in Issued, C \in Components : remove_component_unnotified(entity, C)
SystemRun == \E s \in 1..Len(systems) : System_run(s)

NextStale ==
    \/ AddStaleSystem
    \/ NewEntity
    \/ AddComponent
    \/ RemoveEntityUnnotified
    \/ RemoveComponentUnnotified
    \/ SystemRun

SpecStale == Init /\ [][NextStale]_vars

QueryMenu ==
    { <<QueryParamOf(<<EntityTerm>>)>>,
      <<QueryParamOf(<<<<"A", Read>>>>)>>,
      <<QueryParamOf(<<<<"B", Write>>>>)>>,
      <<QueryParamOf(<<<<"A", Read>>, <<"B", Read>>>>)>> }

AddQuerySystem ==
    \E params \in QueryMenu : Len(systems) < MaxQuerySystems /\ add_system(params)

NextQuery ==
    \/ AddQuerySystem
    \/ NewEntity
    \/ AddComponent
    \/ RemoveComponent
    \/ RemoveEntity

SpecQuery == Init /\ [][NextQuery]_vars

(***************************************************************************)
(* EntityAllocator::allocate_id called through Commands from the threads   *)
(* of the systems: first the pop of the free list under its lock, then,    *)
(* when the list was empty, the fetch_add on the counter.  The handles     *)
(* wait in the command queue until the world registers them.               *)
(***************************************************************************)
FetchingThreads == {t \in Threads : alloc_pc[t] = "fetch_add"}

\* the first step of allocate_id reading the last freed handle without
\* taking it off the list
allocate_id_peek(t) ==
    /\ pc = "idle"
    /\ world.panic = NoPanic
    /\ alloc_pc[t] = "idle"
    /\ calls < MaxCalls
    /\ calls' = calls + 1
    /\ IF world.dropped_entities # <<>>
       THEN LET entity == world.dropped_entities[Len(world.dropped_entities)]
                id == <<entity[1], entity[2] + 1>>
            IN  /\ EntityGeneration(id) <= MaxGeneration
                /\ returned' = Append(returned, id)
                /\ in_flight' = in_flight \cup {id}
                /\ built' = [built EXCEPT ![t] = Some(id)]
                /\ UNCHANGED <<world, alloc_pc>>
       ELSE /\ world.next_entity_id + Cardinality(FetchingThreads) < MaxEntities
            /\ alloc_pc' = [alloc_pc EXCEPT ![t] = "fetch_add"]
            /\ UNCHANGED <<world, returned, in_flight, built>>
    /\ UNCHANGED <<resVars, dataVars, channel, update_pc, updates, sent, drained, snapshot, destroyed, added, schedVars>>

allocate_id_pop(t) ==
    /\ pc = "idle"
    /\ world.panic = NoPanic
    /\ alloc_pc[t] = "idle"
    /\ calls < MaxCalls
    /\ calls' = calls + 1
    /\ IF world.dropped_entities # <<>>
       THEN LET entity == world.dropped_entities[Len(world.dropped_entities)]
                id == <<entity[1], entity[2] + 1>>
            IN  /\ EntityGeneration(id) <= MaxGeneration
                /\ world' = [world EXCEPT !.dropped_entities = SubSeq(@, 1, Len(@) - 1)]
                /\ returned' = Append(returned, id)
                /\ in_flight' = in_flight \cup {id}
                /\ built' = [built EXCEPT ![t] = Some(id)]
                /\ UNCHANGED alloc_pc
       ELSE /\ world.next_entity_id + Cardinality(FetchingThreads) < MaxEntities
            /\ alloc_pc' = [alloc_pc EXCEPT ![t] = "fetch_add"]
            /\ UNCHANGED <<world, returned, in_flight, built>>
    /\ UNCHANGED <<resVars, dataVars, channel, update_pc, updates, sent, drained, snapshot, destroyed, added, schedVars>>

allocate_id_fetch_add(t) ==
    LET id == <<world.next_entity_id, 0>>
    IN  /\ world.panic = NoPanic
        /\ alloc_pc[t] = "fetch_add"
        /\ world' = [world EXCEPT !.next_entity_id = @ + 1]
        /\ returned' = Append(returned, id)
        /\ in_flight' = in_flight \cup {id}
        /\ alloc_pc' = [alloc_pc EXCEPT ![t] = "idle"]
        /\ built' = [built EXCEPT ![t] = Some(id)]
        /\ UNCHANGED <<resVars, dataVars, channel, update_pc, updates, sent, drained, snapshot, destroyed, added, calls, schedVars>>

\* WorldContainer::new_entity_with_id on a handle taken from the queue
new_entity_with_id(id) ==
    LET w == register_new_entity(new_with_id(world, id))
    IN  /\ pc = "idle"
        /\ world.panic = NoPanic
        /\ id \in in_flight
        /\ in_flight' = in_flight \ {id}
        /\ world' = w
        /\ added' = (IF w.panic # NoPanic THEN added
                     ELSE [k \in DOMAIN added \cup ({id} \X Components) |->
                              IF k \in DOMAIN added THEN added[k] ELSE Absent])
        /\ built' = [t \in Threads |-> built[t] \ {id}]
        /\ UNCHANGED <<resVars, dataVars, channel, update_pc, updates, sent, drained, snapshot, destroyed,
                       alloc_pc, returned, calls, schedVars>>

AllocatePop == \E t \in Threads : allocate_id_pop(t)
AllocateFetchAdd == \E t \in Threads : allocate_id_fetch_add(t)
NewEntityWithId == \E id \in in_flight : new_entity_with_id(id)

NextAlloc ==
    \/ calls < MaxAllocCalls /\ AllocatePop
    \/ AllocateFetchAdd
    \/ NewEntityWithId
    \/ calls < MaxAllocCalls /\ NewEntity
    \/ calls < MaxAllocCalls /\ RemoveEntity
    \/ calls < MaxAllocCalls /\ AddComponent

SpecAlloc == Init /\ [][NextAlloc]_vars

(***************************************************************************)
(* Deferred commands.  A system holds a Commands value: a clone of the     *)
(* sender of the world's channel and a reference to the entity allocator.  *)
(* EntityBuilder::build takes a handle from allocate_id and sends the      *)
(* NewEntity command with it; the other methods send their command.  A     *)
(* command carries, next to the fields of CommandType, the thread and the  *)
(* update it was sent from and its number among the commands sent.         *)
(***************************************************************************)
Command(type, entity, components, t) ==
    [type |-> type, entity |-> entity, components |-> components,
     sender |-> t, update |-> updates, seq |-> sent + 1]

\* a send that puts the message in front of the waiting ones
CommandsSender_send_front(ch, command) == <<command>> \o ch

\* Sender::send on the unbounded channel
CommandsSender_send(ch, command) == Append(ch, command)

\* the components a new entity may be built with: the HashMap of
\* EntityBuilder is iterated in an order of its own
SpawnMenu == {<<"A">>, <<"A", "B">>, <<"B", "A">>}

\* the handles thread t can name: those of the entities its queries yield
\* and those build returned to it during this update
KnownTo(t) ==
    {iter_all_entities(world)[i][1] : i \in 1..Len(iter_all_entities(world))}
    \cup {channel[i].entity : i \in {k \in 1..Len(channel) :
                                        /\ channel[k].type = "NewEntity"
                                        /\ channel[k].sender = t
                                        /\ channel[k].update = updates}}

DestroyQueued(entity) ==
    \E i \in 1..Len(channel) : channel[i].type = "DestroyEntity" /\ channel[i].entity = entity

\* the threads inside EntityBuilder::build
Building == {t \in Threads : alloc_pc[t] = "fetch_add" \/ built[t] # None}

send(command) ==
    /\ pc = "idle"
    /\ world.panic = NoPanic
    /\ update_pc = "running"
    /\ channel' = CommandsSender_send(channel, command)
    /\ sent' = sent + 1

\* EntityBuilder::build, the call of allocate_id
build_allocate_id(t) ==
    /\ update_pc = "running"
    /\ built[t] = None
    /\ sent + Cardinality(Building) < MaxCommands
    /\ allocate_id_pop(t)

\* EntityBuilder::build, the send of the NewEntity command
build_send(t, components) ==
    /\ built[t] # None
    /\ send(Command("NewEntity", Unwrap(built[t]), components, t))
    /\ built' = [built EXCEPT ![t] = None]
    /\ UNCHANGED <<resVars, dataVars, world, added, calls, allocVars, updates, update_pc, drained,
                   snapshot, destroyed, schedVars>>

Commands_destroy_entity(t, entity) ==
    /\ sent + Cardinality(Building) < MaxCommands
    /\ send(Command("DestroyEntity", entity, <<>>, t))
    /\ UNCHANGED <<resVars, dataVars, world, added, calls, allocVars, updates, update_pc, built, drained,
                   snapshot, destroyed, schedVars>>

Commands_add_component(t, entity, T) ==
    /\ sent + Cardinality(Building) < MaxCommands
    /\ ~DestroyQueued(entity)
    /\ send(Command("AddComponent", entity, <<T>>, t))
    /\ UNCHANGED <<resVars, dataVars, world, added, calls, allocVars, updates, update_pc, built, drained,
                   snapshot, destroyed, schedVars>>

Commands_remove_component(t, entity, T) ==
    /\ sent + Cardinality(Building) < MaxCommands
    /\ ~DestroyQueued(entity)
    /\ send(Command("RemoveComponent", entity, <<T>>, t))
    /\ UNCHANGED <<resVars, dataVars, world, added, calls, allocVars, updates, update_pc, built, drained,
                   snapshot, destroyed, schedVars>>

(***************************************************************************)
(* The paths of the container that take a component as a typed blob.       *)
(***************************************************************************)
add_entity_component_dynamic(w, entity, component_id, data) ==
    LET columns == IF component_id \in DOMAIN w.columns
                   THEN w.columns
                   ELSE (component_id :> ensure_len(ErasedVec_new(1), w.num_entities))
                        @@ w.columns
    IN  IF ~(EntityIndex(entity) < columns[component_id].len)
        THEN Panic(w, "assertion failed: dest_index < self.len")
        ELSE [w EXCEPT !.columns =
                [columns EXCEPT ![component_id].slots[EntityIndex(entity) + 1] = data]]

replace_entity_component_dynamic(w, entity, component_id, data) ==
    add_entity_component_dynamic(erase_entity_component(w, entity, component_id),
                                 entity, component_id, data)

add_component_dynamic(w, entity, component_id, data) ==
    IF EntityAllocator_entity_info(w, entity) = None
    THEN Panic(w, "Failed to get entity")
    ELSE LET entity_info == Unwrap(EntityAllocator_entity_info(w, entity))
         IN  IF ComponentsContains(entity_info.components, component_id)
             THEN replace_entity_component_dynamic(w, entity, component_id, data)
             ELSE LET w1 == add_entity_component_dynamic(
                                SetEntityInfo(w, entity,
                                    [entity_info EXCEPT !.components = Append(@, component_id)]),
                                entity, component_id, data)
                  IN  IF w1.panic # NoPanic THEN w1
                      ELSE update_entity_archetype(w1, entity)

add_component_from_type_id(w, entity, blob_ty_id, data) ==
    add_component_dynamic(get_registration(w, blob_ty_id), entity, blob_ty_id, data)

remove_component_from_type_id(w0, entity, component_ty) ==
    LET w == get_registration(w0, component_ty)
    IN  IF EntityAllocator_entity_info(w, entity) = None
        THEN Panic(w, "called Option::unwrap() on a None value")
        ELSE update_entity_archetype(remove_component_untyped(w, entity, component_ty),
                                     entity)

(***************************************************************************)
(* KecsWorld::update: the commands waiting in the channel are received     *)
(* one by one and applied to the container, the scheduler is told of each  *)
(* entity touched, then the plan is executed.  The systems of the plan     *)
(* run between update_enter and update_return.                             *)
(***************************************************************************)
RECURSIVE AddComponents(_, _, _, _)
AddComponents(w, entity, components, i) ==
    IF i > Len(components) \/ w.panic # NoPanic THEN w
    ELSE AddComponents(add_component_from_type_id(w, entity, components[i], "v1"),
                       entity, components, i + 1)

\* one command applied: [world, systems]
apply_command(w, sys, command) ==
    LET w1 == CASE command.type = "NewEntity" ->
                     AddComponents(register_new_entity(new_with_id(w, command.entity)),
                                   command.entity, command.components, 1)
                [] command.type = "DestroyEntity" -> remove_entity(w, command.entity)
                [] command.type = "AddComponent" ->
                     add_component_from_type_id(w, command.entity, command.components[1], "v2")
                [] command.type = "RemoveComponent" ->
                     remove_component_from_type_id(w, command.entity, command.components[1])
        r == on_entity_updated(sys, w1, command.entity)
    IN  IF w1.panic # NoPanic THEN [world |-> w1, systems |-> sys]
        ELSE [world |-> IF r.panic # NoPanic THEN Panic(w1, r.panic) ELSE w1,
              systems |-> r.systems]

\* the commands of ch from the i-th on applied in their order, up to the
\* first that fails: [world, systems, applied]
RECURSIVE drain(_, _, _, _)
drain(w, sys, ch, i) ==
    IF i > Len(ch) THEN [world |-> w, systems |-> sys, applied |-> Len(ch)]
    ELSE LET r == apply_command(w, sys, ch[i])
         IN  IF r.world.panic # NoPanic
             THEN [world |-> r.world, systems |-> r.systems, applied |-> i]
             ELSE drain(r.world, r.systems, ch, i + 1)

\* what the queries of the systems iterate
Visible(w, sys) ==
    <<w.entity_info, w.columns, w.archetypes, [i \in 1..Len(sys) |-> sys[i].state]>>

update_enter ==
    /\ pc = "idle"
    /\ world.panic = NoPanic
    /\ update_pc = "idle"
    /\ updates < MaxUpdates
    /\ \E r \in {drain(world, systems, channel, 1)} :
        LET applied == SubSeq(channel, 1, r.applied)
        IN
        /\ updates' = updates + 1
        /\ world' = r.world
        /\ systems' = r.systems
        /\ drained' = applied
        /\ channel' = SubSeq(channel, r.applied + 1, Len(channel))
        /\ in_flight' = in_flight \ {applied[i].entity : i \in 1..Len(applied)}
        /\ destroyed' = destroyed \cup
              {applied[i].entity : i \in {k \in 1..Len(applied) :
                                            applied[k].type = "DestroyEntity"}}
        /\ update_pc' = (IF r.world.panic = NoPanic THEN "running" ELSE "idle")
        /\ snapshot' = Visible(r.world, r.systems)
        /\ UNCHANGED <<resVars, dataVars, added, calls, alloc_pc, returned, built, sent,
                       graph_edges, current_dependencies, changed_schedule,
                       cached_schedule, pc, layer, started, finished, ran,
                       val, val0, executes, on_pool>>

update_return ==
    /\ update_pc = "running"
    /\ \A t \in Threads : alloc_pc[t] = "idle" /\ built[t] = None
    /\ update_pc' = "idle"
    /\ UNCHANGED <<resVars, dataVars, world, added, calls, allocVars, channel, updates, built, sent,
                   drained, snapshot, destroyed, schedVars>>

\* the systems of the plan: one over Query<&A>, one over Query<(&A, &B)>
CmdQueryMenu ==
    { <<QueryParamOf(<<<<"A", Read>>>>)>>,
      <<QueryParamOf(<<<<"A", Read>>, <<"B", Read>>>>)>> }

CmdAddSystem ==
    /\ updates = 0
    /\ Len(systems) < MaxCmdSystems
    /\ \E params \in CmdQueryMenu : add_system(params)
Update == update_enter
UpdateReturn == update_return
BuildAllocateId == \E t \in Threads : build_allocate_id(t)
BuildFetchAdd == \E t \in Threads : update_pc = "running" /\ allocate_id_fetch_add(t)
BuildSend == \E t \in Threads, components \in SpawnMenu : build_send(t, components)
SendDestroyEntity == \E t \in Threads : \E entity \in KnownTo(t) : Commands_destroy_entity(t, entity)
SendAddComponent ==
    \E t \in Threads : \E entity \in KnownTo(t), T \in Components :
        Commands_add_component(t, entity, T)
SendRemoveComponent ==
    \E t \in Threads : \E entity \in KnownTo(t), T \in Components :
        Commands_remove_component(t, entity, T)

NextCommands ==
    \/ CmdAddSystem
    \/ Update
    \/ UpdateReturn
    \/ BuildAllocateId
    \/ BuildFetchAdd
    \/ BuildSend
    \/ SendDestroyEntity
    \/ SendAddComponent
    \/ SendRemoveComponent

SpecCommands == Init /\ [][NextCommands]_vars

(***************************************************************************)
(* Calls on the resources of the container.  Every call is made on one of  *)
(* the ResThreads; `accesses` keeps, for each call, what the registry it   *)
(* went to held before the call and what the call returned.  A value added *)
(* is the number of the call that added it, so no value is added twice.    *)
(***************************************************************************)
\* the registry a call on R goes to: TRUE the send one, FALSE the non-send one
RegistryOf(res, SEND) == IF SEND THEN res.send_resources ELSE res.non_send_resources

Accessed(op, R, SEND, resource, thread, r) ==
    LET registry == RegistryOf(resources, SEND)
        present == R \in DOMAIN resources.resource_sendness /\ R \in DOMAIN registry
    IN  [op |-> op, type |-> R, send |-> SEND, thread |-> thread, value |-> resource,
         present |-> present,
         creator |-> IF present THEN registry[R].original_creator ELSE None,
         before |-> IF present THEN Some(registry[R].value) ELSE None,
         ptr |-> r.ptr, panic |-> r.panic]

ResourceCall(op, R, SEND, resource, thread, r) ==
    /\ pc = "idle"
    /\ world.panic = NoPanic
    /\ Len(accesses) < MaxResourceCalls
    /\ (IF Len(accesses) = 0 THEN TRUE ELSE accesses[Len(accesses)].panic = NoPanic)
    /\ resources' = r.resources
    /\ drops' = drops \o r.dropped
    /\ accesses' = Append(accesses, Accessed(op, R, SEND, resource, thread, r))
    /\ UNCHANGED <<dataVars, worldVars, allocVars, cmdVars, schedVars>>

AddResource ==
    \E thread \in ResThreads, R \in ResourceTypes :
        \E r \in {add_resource(resources, R, Len(accesses) + 1, thread)} :
            ResourceCall("add_resource", R, TRUE, Len(accesses) + 1, thread, r)

AddNonSendResource ==
    \E thread \in ResThreads, R \in ResourceTypes :
        \E r \in {add_non_send_resource(resources, R, Len(accesses) + 1, thread)} :
            ResourceCall("add_non_send_resource", R, FALSE, Len(accesses) + 1, thread, r)

\* the registry get_resource reads: the one resource_sendness names
SendnessOf(R) ==
    R \in DOMAIN resources.resource_sendness /\ resources.resource_sendness[R]

GetResource ==
    \E thread \in ResThreads, R \in ResourceTypes :
        \E r \in {get_resource(resources, R, thread)} :
            ResourceCall("get_resource", R, SendnessOf(R), 0, thread, r)

GetResourceMut ==
    \E thread \in ResThreads, R \in ResourceTypes :
        \E r \in {get_resource_mut(resources, R, thread)} :
            ResourceCall("get_resource_mut", R, SendnessOf(R), 0, thread, r)

NextResources ==
    \/ AddResource
    \/ AddNonSendResource
    \/ GetResource
    \/ GetResourceMut

SpecResources == Init /\ [][NextResources]_vars

(***************************************************************************)
(* Calls on one SparseSet<usize, T>, as in sparse_set.rs tests::operations.*)
(* `set_calls` keeps what each call was given and what it returned.        *)
(***************************************************************************)
Keys == 0..MaxKey
SetValues == {"v1", "v2"}

SetCall(op, index, value, r) ==
    /\ pc = "idle"
    /\ Len(set_calls) < MaxSetCalls
    /\ sparse_set' = r.set
    /\ set_calls' = Append(set_calls, [op |-> op, index |-> index, value |-> value,
                                       ret |-> r.ret])
    /\ UNCHANGED <<resVars, worldVars, allocVars, cmdVars, schedVars,
                   lifetime, erased_vec, vec_calls, schedule_loop>>

SetInsert ==
    \E index \in Keys, value \in SetValues :
        \E r \in {SparseSet_insert(sparse_set, index, value)} :
            SetCall("insert", index, value, r)

SetRemove ==
    \E index \in Keys :
        \E r \in {SparseSet_remove(sparse_set, index)} :
            SetCall("remove", index, Absent, r)

SetClear ==
    \E r \in {SparseSet_clear(sparse_set)} : SetCall("clear", 0, Absent, r)

(***************************************************************************)
(* Calls on one ErasedVec; `vec_calls` keeps the vector before and after   *)
(* each call.                                                              *)
(***************************************************************************)
VecCall(op, n, after) ==
    /\ pc = "idle"
    /\ Len(vec_calls) < MaxVecCalls
    /\ erased_vec' = after
    /\ vec_calls' = Append(vec_calls, [op |-> op, n |-> n, before |-> erased_vec,
                                       after |-> after])
    /\ UNCHANGED <<resVars, worldVars, allocVars, cmdVars, schedVars,
                   sparse_set, set_calls, lifetime, schedule_loop>>

VecEnsureLen ==
    \E new_len \in 0..MaxVecLen :
        VecCall("ensure_len", new_len, ensure_len(erased_vec, new_len))

VecReserveExact ==
    \E new_elements \in 0..MaxVecLen :
        VecCall("reserve_exact", new_elements, reserve_exact(erased_vec, new_elements))

\* ErasedVec::insert_at on an index below len
VecInsertAt ==
    \E index \in 0..(erased_vec.len - 1), element \in Values :
        VecCall("insert_at", index, [erased_vec EXCEPT !.slots[index + 1] = element])

NextVec ==
    \/ VecEnsureLen
    \/ VecReserveExact
    \/ VecInsertAt

SpecVec == Init /\ [][NextVec]_vars

NextSparse ==
    \/ SetInsert
    \/ SetRemove
    \/ SetClear

SpecSparse == Init /\ [][NextSparse]_vars

(***************************************************************************)
(* Vocabulary of the scheduler claims.                                     *)
(***************************************************************************)
\* every plan compute_schedule can produce for the current graph
Plans == compute_schedule(graph_edges)

LayersOf(plan, s) == {i \in 1..Len(plan) : s \in JobsOf(plan[i])}

Declares(s, c, mode) ==
    /\ SparseContains(systems[s].dependencies, c)
    /\ SparseGet(systems[s].dependencies, c) = mode

DeclaredConflict(s1, s2) ==
    \E c \in DataIds : \E m1, m2 \in AccessMode :
        /\ Declares(s1, c, m1)
        /\ Declares(s2, c, m2)
        /\ Write \in {m1, m2}

StrictlyEarlier(plan, s1, s2) ==
    \A l1 \in LayersOf(plan, s1) : \A l2 \in LayersOf(plan, s2) : l1 < l2

RECURSIVE ReachableFrom(_, _)
ReachableFrom(edges, nodes) ==
    LET more == nodes \cup UNION {Targets(edges, n) : n \in nodes}
    IN  IF more = nodes THEN nodes ELSE ReachableFrom(edges, more)

\* the graph has a path of at least one edge from u to v
HasPath(u, v) == v \in ReachableFrom(graph_edges, Targets(graph_edges, u))

\* C2: in every plan, no two systems of one layer declare the same component
\* or resource id with Write on at least one side.
C2_NoConflictInLayer ==
    \A plan \in Plans : \A i \in 1..Len(plan) :
        \A s1, s2 \in JobsOf(plan[i]) : s1 # s2 => ~DeclaredConflict(s1, s2)

\* C3: two systems that declare a common id with Write on at least one side
\* are placed in insertion order: the earlier one in a strictly earlier layer.
C3_ConflictsKeepInsertionOrder ==
    \A plan \in Plans : \A s1, s2 \in SystemIds :
        (s1 < s2 /\ DeclaredConflict(s1, s2)) => StrictlyEarlier(plan, s1, s2)

\* C5: an exclusive system is alone in its layer, after every system added
\* before it and before every system added after it.
C5_ExclusiveIsBarrier ==
    \A plan \in Plans : \A x \in SystemIds :
        systems[x].exclusive =>
            /\ \A l \in LayersOf(plan, x) : JobsOf(plan[l]) = {x}
            /\ \A t \in SystemIds : t < x => StrictlyEarlier(plan, t, x)
            /\ \A t \in SystemIds : t > x => StrictlyEarlier(plan, x, t)

\* the systems that declared Read on c after the last Write on c before n
ReadersSinceLastWrite(n, c) ==
    {r \in 1..(n - 1) :
        /\ Declares(r, c, Read)
        /\ \A w \in (r + 1)..(n - 1) : ~Declares(w, c, Write)}

\* C7: a system that writes c depends, by an edge or a path, on every system
\* that declared Read on c since the last Write on c, and each of those
\* readers is in a strictly earlier layer.
C7_WriterAfterReaders ==
    \A n \in SystemIds : \A c \in DataIds :
        (~systems[n].exclusive /\ Declares(n, c, Write)) =>
            \A r \in ReadersSinceLastWrite(n, c) :
                /\ HasPath(r, n)
                /\ \A plan \in Plans : StrictlyEarlier(plan, r, n)

\* the accesses a system makes to shareable resources through Res and ResMut
UsesRes(s, r) ==
    \E i \in 1..Len(systems[s].params) :
        systems[s].params[i].kind \in {"Res", "ResMut"} /\ systems[s].params[i].res = r

UsesResMut(s, r) ==
    \E i \in 1..Len(systems[s].params) :
        systems[s].params[i].kind = "ResMut" /\ systems[s].params[i].res = r

\* C6: two systems that access the same shareable resource, at least one of
\* them through ResMut, are placed in different layers, in insertion order.
C6_ResMutSerialised ==
    \A plan \in Plans : \A s1, s2 \in SystemIds : \A r \in SendResources :
        (/\ s1 < s2
         /\ UsesRes(s1, r) /\ UsesRes(s2, r)
         /\ UsesResMut(s1, r) \/ UsesResMut(s2, r))
        => StrictlyEarlier(plan, s1, s2)

\* execute has dispatched and joined every group of the cached plan
ExecuteCompleted == pc = "running" /\ layer > Len(cached_schedule)

\* C1: one execute of the GraphScheduler leaves every component and resource
\* with the value that running the systems one at a time in insertion order
\* (LinearScheduler.execute) gives.
C1_GraphExecuteEqualsLinear ==
    ExecuteCompleted => val = LinearScheduler_execute(systems, 1, val0)

\* C4: whenever the graph has a path from u to v, u is in a strictly earlier
\* layer than v in every plan, and during execute v does not begin before u
\* has returned.
C4_PathsOrderLayersAndRuns ==
    \A u, v \in SystemIds :
        HasPath(u, v) =>
            /\ \A plan \in Plans : StrictlyEarlier(plan, u, v)
            /\ (pc = "running" /\ v \in started) => ran[u] >= 1

Occurrences(plan, s) ==
    Cardinality({li \in (1..Len(plan)) \X (1..MaxSystems + 1) :
                    li[2] <= Len(plan[li[1]]) /\ plan[li[1]][li[2]] = s})

\* C8: the plan holds every added system in exactly one layer and never holds
\* ROOT, so one execute runs each system exactly once; with no system added
\* the plan has no layers.
C8_EverySystemExactlyOnce ==
    /\ \A plan \in Plans :
          /\ \A s \in SystemIds : Occurrences(plan, s) = 1
          /\ Occurrences(plan, root_node_idx) = 0
          /\ systems = <<>> => plan = <<>>
    /\ ExecuteCompleted => \A s \in SystemIds : ran[s] = 1

(***************************************************************************)
(* Vocabulary of the claims on entities, components and queries.           *)
(***************************************************************************)
LiveEntities == {iter_all_entities(world)[i][1] : i \in 1..Len(iter_all_entities(world))}

ComponentsOf(entity) ==
    LET components == Unwrap(EntityAllocator_entity_info(world, entity)).components
    IN  {components[i] : i \in 1..Len(components)}

\* the components a query declares
DeclaredBy(p) == SparseKeys(compute_component_set(p.terms, 1, <<>>))

Matching(p) == {entity \in LiveEntities : DeclaredBy(p) \subseteq ComponentsOf(entity)}

QueryParams == {<<s, i>> \in SystemIds \X (1..MaxQueryTerms) :
                    i <= Len(systems[s].params) /\ systems[s].params[i].kind = "Query"}

\* C9: with on_entity_updated(E) called after every add_component,
\* remove_component and destroy of E, the cached entity set of every query is
\* the set of the live entities that have every component the query declares,
\* and add_system gives a new system that set (it does not end the program on
\* the entities that exist).
C9_QueryCacheIsMatchingSet ==
    /\ world.panic # "Failed to get archetype for entity"
    /\ world.panic = NoPanic =>
          \A q \in QueryParams :
              systems[q[1]].state[q[2]].entities = Matching(systems[q[1]].params[q[2]])

\* C10: get_component(E, T) is the value added last for (E, T), and is absent
\* when none was added, when it was removed since and when E was destroyed.
C10_GetComponentReturnsLastAdded ==
    world.panic = NoPanic =>
        \A entity \in Issued, T \in Components :
            get_component(world, entity, T) =
                (IF added[<<entity, T>>] = Absent THEN None ELSE Some(added[<<entity, T>>]))

\* C10 witness: an index was recycled; the new handle reads the value added
\* to it and the destroyed handle of the same index reads absent, though the
\* column holds a value at the index.
C10_Witness ==
    /\ world.panic = NoPanic
    /\ \E entity \in Issued :
          /\ EntityGeneration(entity) = 1
          /\ <<EntityIndex(entity), 0>> \in Issued
          /\ get_component(world, entity, "A") = Some("v2")
          /\ get_component(world, <<EntityIndex(entity), 0>>, "A") = None
          /\ "A" \in DOMAIN world.columns

\* the handles new_entity gave out that do not name a live entity any more
StaleHandles == Issued \ LiveEntities

\* C11: a handle whose generation is not the stored one behaves as an absent
\* entity: get_entity_info and get_component return absent, remove_component
\* and remove_entity leave every entity as it is, and add_component ends as it
\* does for an absent entity, so the live entity of the same index keeps its
\* components, archetype and liveness.
C11_StaleHandleIsAbsent ==
    world.panic = NoPanic =>
        \A entity \in StaleHandles :
            /\ EntityAllocator_entity_info(world, entity) = None
            /\ \A T \in Components : get_component(world, entity, T) = None
            /\ \A C \in Components :
                  remove_component(world, entity, C) = get_registration(world, C)
            /\ remove_entity(world, entity) = world
            /\ \A C \in Components : \A component \in Values :
                  add_component(world, entity, C, component).panic = "Failed to find entity"

\* C11 witness: a destroyed handle whose index is in use again by a live
\* entity that holds a component
C11_Witness ==
    /\ world.panic = NoPanic
    /\ \E entity \in StaleHandles : \E live \in LiveEntities :
          /\ EntityIndex(live) = EntityIndex(entity)
          /\ EntityGeneration(live) # EntityGeneration(entity)
          /\ ComponentsOf(live) # {}

\* C12: every handle the allocator returns differs, as an (index, generation)
\* pair, from every handle it returned before, and an index that is issued
\* again carries a strictly greater generation than before.
C12_HandlesNeverRepeat ==
    \A i, j \in 1..Len(returned) :
        i < j =>
            /\ returned[i] # returned[j]
            /\ EntityIndex(returned[i]) = EntityIndex(returned[j]) =>
                  EntityGeneration(returned[i]) < EntityGeneration(returned[j])

\* C12 witness: an entity was destroyed and its index was returned again
C12_Witness ==
    \E i, j \in 1..Len(returned) :
        /\ i < j
        /\ EntityIndex(returned[i]) = EntityIndex(returned[j])
        /\ returned[i] \notin LiveEntities
        /\ returned[j] \in LiveEntities \cup in_flight

\* C13: allocate_id calls that run concurrently return distinct handles, none
\* of them the handle of a live entity or of another handle that awaits
\* registration, so new_entity_with_id never fails its assertion that the
\* handle is not registered yet.
C13_ConcurrentAllocationsAreDistinct ==
    /\ world.panic # "assertion failed: !self.entity_info.contains(&id)"
    /\ \A id \in in_flight : ~EntitySetContains(world.entity_info, id)
    /\ \A a, b \in in_flight : a # b => EntityIndex(a) # EntityIndex(b)
    /\ \A i, j \in 1..Len(returned) : i # j => returned[i] # returned[j]

\* C13 witness: one thread is inside allocate_id, between the pop and the
\* fetch_add, while the handle another call took from the free list awaits
\* registration and an entity is live
C13_Witness ==
    /\ world.panic = NoPanic
    /\ LiveEntities # {}
    /\ \E t \in Threads : alloc_pc[t] = "fetch_add"
    /\ \E id \in in_flight : EntityGeneration(id) > 0


\* C14: after any sequence of registrations (new_entity, or
\* new_entity_with_id with handles from allocate_id, in any order), the
\* length of every column exceeds the index of every registered entity, and
\* adding a component to a live entity never fails the bounds check of the
\* column
C14_ColumnsCoverRegisteredEntities ==
    /\ world.panic # "Not enough storage in the ErasedVec"
    /\ \A component_id \in DOMAIN world.columns : \A entity \in LiveEntities :
          EntityIndex(entity) < world.columns[component_id].len


EntityInfoOf(entity) == Unwrap(EntityAllocator_entity_info(world, entity))

\* C15: for every live entity, between operations, EntityInfo.archetype_id
\* is archetype_of of its current component set, and that archetype exists
\* in the archetype manager
C15_ArchetypeIdReflectsComponents ==
    world.panic = NoPanic =>
        \A entity \in LiveEntities :
            /\ EntityInfoOf(entity).archetype_id
                  = archetype_of(world, EntityInfoOf(entity).components).id
            /\ EntityInfoOf(entity).archetype_id \in DOMAIN world.archetypes

\* the archetypes whose entity set holds the entity
ArchetypesHolding(entity) ==
    {id \in DOMAIN world.archetypes :
        EntitySetContains(world.archetypes[id].entities, entity)}

\* C16: between operations, each live entity is in the entity set of exactly
\* one archetype, the one its archetype_id names, and no entity set holds a
\* destroyed entity
C16_EntityInExactlyOneArchetype ==
    world.panic = NoPanic =>
        /\ \A entity \in LiveEntities :
              ArchetypesHolding(entity) = {EntityInfoOf(entity).archetype_id}
        /\ \A entity \in StaleHandles : ArchetypesHolding(entity) = {}

\* C17: archetype_of gives one ArchetypeId to component sets with equal
\* members, whatever the order the ids were inserted or removed in: two live
\* entities holding the same components get the same id from it
C17_ArchetypeOfIgnoresOrder ==
    world.panic = NoPanic =>
        \A e1, e2 \in LiveEntities :
            ComponentsOf(e1) = ComponentsOf(e2) =>
                archetype_of(world, EntityInfoOf(e1).components).id
                    = archetype_of(world, EntityInfoOf(e2).components).id


\* the entities the query p = <<system, parameter>> iterates
CacheOf(p) == systems[p[1]].state[p[2]].entities

\* the i-th command of the last drain is the last one naming its entity
LastOn(i) == \A j \in (i + 1)..Len(drained) : drained[j].entity # drained[i].entity

SeqRange(s) == {s[i] : i \in 1..Len(s)}

\* C18: the commands sent during update k change nothing a query sees
\* during update k; update k+1 applies all of them before its first layer
\* runs, so a spawned entity is iterated from update k+1 on and a destroyed
\* entity is not iterated after update k
C18_CommandsApplyBetweenUpdates ==
    /\ update_pc = "running" => Visible(world, systems) = snapshot
    /\ \A i \in 1..Len(channel) :
          channel[i].type = "NewEntity" => channel[i].entity \notin LiveEntities
    /\ world.panic = NoPanic
    /\ update_pc = "running" =>
          /\ \A i \in 1..Len(channel) : channel[i].update = updates
          /\ \A i \in 1..Len(drained) :
                drained[i].type = "NewEntity" /\ LastOn(i) =>
                    /\ drained[i].entity \in LiveEntities
                    /\ ComponentsOf(drained[i].entity) = SeqRange(drained[i].components)
                    /\ \A p \in QueryParams :
                          DeclaredBy(systems[p[1]].params[p[2]])
                                \subseteq SeqRange(drained[i].components)
                             => drained[i].entity \in CacheOf(p)
          /\ \A entity \in destroyed :
                /\ entity \notin LiveEntities
                /\ \A p \in QueryParams : entity \notin CacheOf(p)


\* the commands of s that come from one sender are in the order of sending
InSendOrder(s) ==
    \A i, j \in 1..Len(s) : i < j /\ s[i].sender = s[j].sender => s[i].seq < s[j].seq

\* in the last drain, the i-th command spawned an entity with component T,
\* the j-th, sent later by the same system, removed T from it, and T was
\* not added to it again
SpawnedThenRemoved(i, j, T) ==
    /\ i < j
    /\ drained[i].type = "NewEntity"
    /\ T \in SeqRange(drained[i].components)
    /\ drained[j].type = "RemoveComponent"
    /\ drained[j].entity = drained[i].entity
    /\ drained[j].components = <<T>>
    /\ drained[j].sender = drained[i].sender
    /\ \A k \in (j + 1)..Len(drained) :
          ~(drained[k].type = "AddComponent" /\ drained[k].entity = drained[i].entity
            /\ drained[k].components = <<T>>)

\* C19: the commands one system sent are applied in the order it sent them;
\* when it spawned an entity with a component and then sent the removal of
\* that component, the entity ends up without it and no query over the
\* component yields the entity
C19_CommandsApplyInSendOrder ==
    /\ InSendOrder(channel)
    /\ InSendOrder(drained)
    /\ update_pc = "running" =>
          \A i, j \in 1..Len(drained) : \A T \in Components :
              SpawnedThenRemoved(i, j, T) =>
                  /\ drained[i].entity \in LiveEntities =>
                        T \notin ComponentsOf(drained[i].entity)
                  /\ \A p \in QueryParams :
                        T \in DeclaredBy(systems[p[1]].params[p[2]])
                            => drained[i].entity \notin CacheOf(p)

\* C19 witness: update applied a spawn with a component and the removal of
\* it sent by the same system; the entity lives without the component, next
\* to a query over that component
C19_Witness ==
    /\ update_pc = "running"
    /\ \E i, j \in 1..Len(drained) : \E T \in Components :
          /\ SpawnedThenRemoved(i, j, T)
          /\ drained[i].entity \in LiveEntities
          /\ T \notin ComponentsOf(drained[i].entity)
          /\ \E p \in QueryParams : T \in DeclaredBy(systems[p[1]].params[p[2]])


\* ResourceData::validate_access on the thread of a job: a non-send resource
\* was created by the thread that owns the world and calls execute
validate_access(res, thread) == resource_sendness[res] \/ thread = "caller"

ThreadOf(job) == IF job \in on_pool THEN "pool" ELSE "caller"

\* C20: during execute every exclusive system, and so every system that
\* claims a non-send resource through Res or ResMut, runs on the thread that
\* called execute, and its access to the resource passes the thread check
C20_ExclusiveRunsOnCallingThread ==
    \A job \in started \ finished :
        /\ systems[job].exclusive => ThreadOf(job) = "caller"
        /\ \A i \in 1..Len(systems[job].params) :
              systems[job].params[i].kind \in {"Res", "ResMut"} =>
                  validate_access(systems[job].params[i].res, ThreadOf(job))


(***************************************************************************)
(* Vocabulary of the claims on resources.                                  *)
(***************************************************************************)
ResourceReads == {"get_resource", "get_resource_mut"}

\* the call went to a non-send resource that exists, from a thread that did
\* not create it
FromForeignThread(c) == c.present /\ ~c.send /\ c.creator # Some(c.thread)

\* the call went to a non-send resource that exists, from its creating thread
FromCreatingThread(c) == c.present /\ ~c.send /\ c.creator = Some(c.thread)

\* C21: a read, a write or a replacement of a non-send resource made on a
\* thread other than the one that created it panics, hands back no pointer
\* and leaves the installed value in place; the same call on the creating
\* thread does not panic, and a read or a write hands back the installed
\* value; a call on a shareable resource never panics.
C21_NonSendResourceIsThreadChecked ==
    \A i \in 1..Len(accesses) :
        LET c == accesses[i]
        IN  /\ FromForeignThread(c) =>
                  /\ c.panic = ResourcePanic
                  /\ c.ptr = None
                  /\ i = Len(accesses)
                  /\ Some(resources.non_send_resources[c.type].value) = c.before
            /\ FromCreatingThread(c) =>
                  /\ c.panic = NoPanic
                  /\ c.op \in ResourceReads => c.ptr = c.before
            /\ c.send =>
                  /\ c.panic = NoPanic
                  /\ (c.op \in ResourceReads /\ c.present) => c.ptr = c.before

\* a non-send resource was read on its creating thread and then on another one
C21_Witness ==
    /\ Len(accesses) = 3
    /\ accesses[1].op = "add_non_send_resource"
    /\ accesses[2].op \in ResourceReads /\ FromCreatingThread(accesses[2])
    /\ accesses[2].ptr = Some(1)
    /\ accesses[3].op \in ResourceReads /\ FromForeignThread(accesses[3])
    /\ accesses[3].panic = ResourcePanic


\* the calls that installed a value for R, in order
RECURSIVE AddsOf(_, _)
AddsOf(R, n) ==
    IF n = 0 THEN <<>>
    ELSE LET c == accesses[n]
         IN  IF c.type = R /\ c.value # 0 /\ c.panic = NoPanic
             THEN Append(AddsOf(R, n - 1), n)
             ELSE AddsOf(R, n - 1)

\* how many times the destructor of the value ran
DropCount(value) == Cardinality({k \in 1..Len(drops) : drops[k] = value})

\* the registries that hold a value for R
InstalledIn(R) == {SEND \in BOOLEAN : R \in DOMAIN RegistryOf(resources, SEND)}

\* C22: when the last two values installed for a type were both added with
\* add_resource, v and then v2, get_resource returns v2 on every thread,
\* exactly one value is installed for the type, the destructor of v has run
\* exactly once, in the call that installed v2, and that of v2 has not run.
C22_AddResourceReplaces ==
    \A R \in ResourceTypes :
        LET adds == AddsOf(R, Len(accesses))
            n == Len(adds)
        IN  (/\ n >= 2
             /\ accesses[adds[n - 1]].op = "add_resource"
             /\ accesses[adds[n]].op = "add_resource") =>
                LET v == accesses[adds[n - 1]].value
                    v2 == accesses[adds[n]].value
                IN  /\ \A t \in ResThreads : get_resource(resources, R, t).ptr = Some(v2)
                    /\ Cardinality(InstalledIn(R)) = 1
                    /\ DropCount(v) = 1
                    /\ accesses[adds[n]].before = Some(v)
                    /\ DropCount(v2) = 0


\* C23: add_system of a well-formed system returns without a panic in every
\* world that new_entity, add_component, remove_component and remove_entity
\* can build.
C23_AddSystemNeverFails ==
    [][\A params \in QueryMenu : add_system(params) => world'.panic = NoPanic]_vars


\* no system added before n is exclusive or declares a common id with n with
\* Write on either side
Unconstrained(n) ==
    /\ ~systems[n].exclusive
    /\ \A e \in 1..(n - 1) : ~systems[e].exclusive /\ ~DeclaredConflict(e, n)

\* C24: a non-exclusive system that has no conflicting declaration with any
\* system added before it, and no exclusive system before it, is in the
\* first layer of every plan and in no other layer.
C24_UnconstrainedSystemInFirstLayer ==
    \A plan \in Plans : \A n \in SystemIds :
        Unconstrained(n) => LayersOf(plan, n) = {1}

\* two readers of A and a writer of B, added in that order, share the first layer
C24_Witness ==
    /\ Len(systems) = 3
    /\ Declares(1, "A", Read) /\ Declares(2, "A", Read) /\ Declares(3, "B", Write)
    /\ \A n \in SystemIds : Unconstrained(n)
    /\ \E plan \in Plans : Len(plan) = 1 /\ JobsOf(plan[1]) = {1, 2, 3}


ConflictOn(s1, s2, c) ==
    \E m1, m2 \in AccessMode :
        Declares(s1, c, m1) /\ Declares(s2, c, m2) /\ Write \in {m1, m2}

\* n is not exclusive, no system before it is, and c is the only id on which
\* it conflicts with a system before it
OnlyConflictsOn(n, c) ==
    /\ ~systems[n].exclusive
    /\ \A e \in 1..(n - 1) :
          /\ ~systems[e].exclusive
          /\ \A d \in DataIds \ {c} : ~ConflictOn(e, n, d)

\* w is the last system before n that declares Write on c
LastWriterBefore(w, n, c) ==
    /\ w < n
    /\ Declares(w, c, Write)
    /\ \A x \in (w + 1)..(n - 1) : ~Declares(x, c, Write)

\* r reads c, written last by w, and has no other conflict
ReaderOf(r, w, c) ==
    /\ Declares(r, c, Read)
    /\ LastWriterBefore(w, r, c)
    /\ OnlyConflictsOn(r, c)

\* C25: the systems that read c after its writer w and before the next
\* writer of c, and have no other conflict, are all in the layer right after
\* the layer of w; the next writer of c, when c is its only conflict too,
\* is in the layer right after the layer of these readers.
C25_ReadersShareLayerAfterWriter ==
    \A plan \in Plans : \A w \in SystemIds : \A c \in DataIds :
        /\ \A r \in SystemIds :
              ReaderOf(r, w, c) =>
                  \E lw \in 1..Len(plan) :
                      LayersOf(plan, w) = {lw} /\ LayersOf(plan, r) = {lw + 1}
        /\ \A n \in SystemIds :
              (/\ LastWriterBefore(w, n, c)
               /\ OnlyConflictsOn(n, c)
               /\ \E r \in (w + 1)..(n - 1) : Declares(r, c, Read)
               /\ \A r \in (w + 1)..(n - 1) : Declares(r, c, Read) => ReaderOf(r, w, c)) =>
                  \E lw \in 1..Len(plan) :
                      LayersOf(plan, w) = {lw} /\ LayersOf(plan, n) = {lw + 2}


\* the systems the plan holds
SystemsIn(plan) == UNION {JobsOf(plan[i]) : i \in 1..Len(plan)}

\* C26: the plan an execute runs is a plan of the current graph; an execute
\* that follows another with no add_system in between runs the cached plan
\* unchanged; and when an execute has joined its last layer every system
\* added so far, also one added after the previous execute, has run.
C26_ExecuteRunsPlanOfCurrentGraph ==
    [][/\ pc' = "running" => cached_schedule' \in compute_schedule(graph_edges')
       /\ (/\ pc = "idle" /\ pc' = "running"
           /\ executes > 0
           /\ SystemsIn(cached_schedule) = SystemIds) =>
              cached_schedule' = cached_schedule
       /\ (pc' = "running" /\ layer' > Len(cached_schedule')) =>
              \A s \in 1..Len(systems') : ran'[s] >= 1]_vars

\* the second execute has joined its last layer and ran a writer of A that
\* was added after the first execute returned
C26_Witness ==
    /\ executes = 1
    /\ ExecuteCompleted
    /\ Len(systems) = 2
    /\ Declares(2, "A", Write)
    /\ val0["A"] = <<>>
    /\ val["A"][1] = 2


\* the handles of live entities that sit on an index used before
Recycled == {entity \in LiveEntities : EntityGeneration(entity) > 0}

\* C27: the entity new_entity creates on a recycled index has an empty
\* component set, and get_component on a live handle of a recycled index
\* returns absent for every component not added to that handle.
C27_RecycledIndexStartsEmpty ==
    [][/\ new_entity =>
            LET id == returned'[Len(returned')]
            IN  EntityGeneration(id) > 0 =>
                    /\ world'.panic = NoPanic
                    /\ Unwrap(EntityAllocator_entity_info(world', id)).components = <<>>
                    /\ \A T \in Components : get_component(world', id, T) = None
       /\ world'.panic = NoPanic =>
            \A entity \in Recycled', T \in Components :
                added'[<<entity, T>>] = Absent => get_component(world', entity, T) = None]_vars

\* an entity holding A and B was destroyed and its index is live again, with
\* B added to the new handle only: A reads absent though its column still
\* has a slot for the index
C27_Witness ==
    /\ world.panic = NoPanic
    /\ \E entity \in Recycled :
          /\ ComponentsOf(entity) = {"B"}
          /\ added[<<entity, "A">>] = Absent
          /\ "A" \in DOMAIN world.columns
          /\ EntityIndex(entity) < world.columns["A"].len


(***************************************************************************)
(* Vocabulary of the claims on ill-formed systems.                         *)
(***************************************************************************)
\* the scheduler's graph, node list and ownership records
GraphState == <<systems, graph_edges, current_dependencies>>

\* C28: add_system of a system whose one query declares a component twice,
\* as two reads, two writes or a read and a write in either order, ends in
\* the panic of compute_component_set and leaves the scheduler's graph and
\* ownership records as they were before the call.
C28_QueryWithComponentTwicePanics ==
    [][\A params \in TwiceMenu :
          add_system(params) =>
              /\ world'.panic = QueryTwicePanic
              /\ GraphState' = GraphState]_vars

\* the add_system of a query of (&A, &mut A) has ended in the panic on a
\* scheduler that holds systems
C28_Witness ==
    /\ world.panic = QueryTwicePanic
    /\ Len(systems) = 2
    /\ graph_edges # {}
    /\ current_dependencies # <<>>


\* the nodes of the graph that have no outgoing edge
Leaves == {node \in 0..Len(systems) : Targets(graph_edges, node) = {}}

\* C29: add_system of a function that takes the world together with any
\* other parameter ends in the panic of into_system and adds nothing to the
\* scheduler; a function that takes the world alone is accepted: it becomes
\* a system marked exclusive, hung under every leaf of the graph.
C29_WorldParameterMustBeAlone ==
    [][/\ \A params \in WorldAndMoreMenu :
             add_system(params) =>
                 /\ world'.panic = IntoSystemPanic
                 /\ GraphState' = GraphState
       /\ add_system(<<WorldParam>>) =>
             /\ world'.panic = NoPanic
             /\ Len(systems') = Len(systems) + 1
             /\ systems'[Len(systems')].exclusive
             /\ \A leaf \in Leaves :
                   \E e \in graph_edges' : e.source = leaf /\ e.target = Len(systems')]_vars

\* a function of the world and a query was refused by a scheduler that
\* holds a system of the world alone
C29_Witness ==
    /\ world.panic = IntoSystemPanic
    /\ \E s \in SystemIds : systems[s].params = <<WorldParam>> /\ systems[s].exclusive


\* the ownership record of c, an empty one when c has none
OwnershipOf(deps, c) ==
    IF c \in DOMAIN deps THEN deps[c]
    ELSE [access_mode |-> Read, last_accessing |-> {}, last_writing |-> {}]

\* C30: when add_system returns for a non-exclusive system n, every id in
\* the dependency map of n has an ownership record that reflects n: for an
\* id n writes the last writer is n and there are no last readers; for an
\* id n reads n is among the last readers and the last writer is the one
\* from before the call.
C30_OwnershipReflectsAddedSystem ==
    [][\A params \in SystemMenu :
          (add_system(params) /\ world'.panic = NoPanic /\ ~is_exclusive(params)) =>
              LET n == Len(systems')
                  deps == systems'[n].dependencies
              IN  \A c \in SparseKeys(deps) :
                      /\ c \in DOMAIN current_dependencies'
                      /\ IF SparseGet(deps, c) = Write
                         THEN /\ current_dependencies'[c].last_writing = {n}
                              /\ current_dependencies'[c].last_accessing = {}
                         ELSE /\ n \in current_dependencies'[c].last_accessing
                              /\ current_dependencies'[c].last_writing
                                    = OwnershipOf(current_dependencies, c).last_writing]_vars


(***************************************************************************)
(* Vocabulary of the claims on dependency maps and on the graph.           *)
(***************************************************************************)
\* the modes the parameters of s declare on c, each through its own
\* add_dependencies
DeclaredModes(s, c) ==
    {m \in AccessMode :
        \E i \in 1..Len(systems[s].params) :
            \E k \in 1..Len(Param_add_dependencies(systems[s].params[i])) :
                Param_add_dependencies(systems[s].params[i])[k] = <<c, m>>}

\* s reads c through one parameter and writes it through another
ReadsAndWrites(s, c) == DeclaredModes(s, c) = {Read, Write}

\* C31: the dependency map of a system holds an id exactly once when a
\* parameter declares it and not at all otherwise, with Write when some
\* parameter declares Write and Read when none does, in whatever order the
\* parameters come; and a system that reads and writes C through two
\* queries is in a strictly earlier layer than a reader of C added after it
\* with no writer of C and no exclusive system in between.
C31_DependencyMapMergesToWrite ==
    /\ \A s \in SystemIds : \A c \in DataIds \cup {WorldId} :
          LET deps == systems[s].dependencies
              held == {k \in 1..Len(deps) : deps[k][1] = c}
          IN  IF DeclaredModes(s, c) = {}
              THEN held = {}
              ELSE /\ Cardinality(held) = 1
                   /\ SparseGet(deps, c) = (IF Write \in DeclaredModes(s, c) THEN Write ELSE Read)
    /\ \A plan \in Plans : \A s, r \in SystemIds : \A c \in Components :
          (/\ s < r
           /\ ReadsAndWrites(s, c)
           /\ Declares(r, c, Read)
           /\ \A x \in (s + 1)..(r - 1) : ~Declares(x, c, Write) /\ ~systems[x].exclusive)
          => StrictlyEarlier(plan, s, r)


\* C32: every edge of the graph goes from a node added earlier to a node
\* added later, so no node has an edge to itself and there is no cycle;
\* ROOT has no incoming edge; every system node has an incoming edge and is
\* reachable from ROOT.
C32_GraphIsAcyclicAndRooted ==
    /\ \A e \in graph_edges :
          /\ e.source \in 0..Len(systems)
          /\ e.target \in SystemIds
          /\ e.source < e.target
    /\ \A n \in SystemIds :
          /\ \E e \in graph_edges : e.target = n
          /\ n \in ReachableFrom(graph_edges, {root_node_idx})
          /\ ~HasPath(n, n)

\* an exclusive system hangs under the two leaves of the graph, two systems
\* placed under ROOT
C32_Witness ==
    /\ Len(systems) = 3
    /\ systems[3].exclusive
    /\ Sources(graph_edges, 3) = {1, 2}
    /\ Sources(graph_edges, 2) = {root_node_idx}


(***************************************************************************)
(* The finite map a sequence of SparseSet calls describes, and the order   *)
(* in which its present keys were inserted.                                *)
(***************************************************************************)
RECURSIVE MapAfter(_)
MapAfter(log) ==
    IF log = <<>> THEN [k \in Keys |-> Absent]
    ELSE LET before == MapAfter(SubSeq(log, 1, Len(log) - 1))
             call == log[Len(log)]
         IN  CASE call.op = "insert" -> [before EXCEPT ![call.index] = call.value]
               [] call.op = "remove" -> [before EXCEPT ![call.index] = Absent]
               [] OTHER -> [k \in Keys |-> Absent]

RECURSIVE InsertionOrderAfter(_)
InsertionOrderAfter(log) ==
    IF log = <<>> THEN <<>>
    ELSE LET before == InsertionOrderAfter(SubSeq(log, 1, Len(log) - 1))
             call == log[Len(log)]
             present == \E i \in 1..Len(before) : before[i] = call.index
         IN  CASE call.op = "insert" ->
                     IF present THEN before ELSE Append(before, call.index)
               [] call.op = "remove" -> SelectSeq(before, LAMBDA k : k # call.index)
               [] OTHER -> <<>>

\* C33: over any sequence of insert, remove and clear the set is the finite
\* map of the calls: contains and get succeed exactly for the keys inserted
\* and not removed or cleared since, and get yields the last value inserted;
\* insert returned true exactly when the key was absent, remove returned
\* true exactly when the key was present; len is the number of present keys.
C33_SparseSetIsFiniteMap ==
    LET map == MapAfter(set_calls)
    IN  /\ \A k \in 0..(MaxKey + 1) :
              LET value == IF k \in Keys THEN map[k] ELSE Absent
              IN  /\ SparseSet_contains(sparse_set, k) = (value # Absent)
                  /\ SparseSet_get(sparse_set, k)
                        = (IF value = Absent THEN None ELSE Some(value))
        /\ SparseSet_len(sparse_set) = Cardinality({k \in Keys : map[k] # Absent})
        /\ \A i \in 1..Len(set_calls) :
              LET before == MapAfter(SubSeq(set_calls, 1, i - 1))
                  call == set_calls[i]
              IN  /\ call.op = "insert" => (call.ret = (before[call.index] = Absent))
                  /\ call.op = "remove" => (call.ret = (before[call.index] # Absent))

\* a key removed from the middle of the dense vector left a sparse entry
\* that points at the slot another key now holds, and a value was replaced
C33_Witness ==
    /\ \E i \in 1..Len(set_calls) : set_calls[i].op = "remove" /\ set_calls[i].ret
    /\ \E i \in 1..Len(set_calls) : set_calls[i].op = "insert" /\ ~set_calls[i].ret
    /\ \E k \in Keys :
          /\ MapAfter(set_calls)[k] = Absent
          /\ k < Len(sparse_set.sparse)
          /\ sparse_set.sparse[k + 1] # UsizeMax
          /\ sparse_set.sparse[k + 1] < Len(sparse_set.dense)

\* C34: after any sequence of insert and remove, iter() yields each present
\* key exactly once, in the order in which the present keys were inserted.
C34_IterInInsertionOrder ==
    (\A i \in 1..Len(set_calls) : set_calls[i].op # "clear")
        => SparseSet_iter(sparse_set) = InsertionOrderAfter(set_calls)

\* the part of C34 the swap of remove leaves standing: each present key once
C34_IterYieldsEachPresentKeyOnce ==
    LET keys == SparseSet_iter(sparse_set)
    IN  /\ \A i, j \in 1..Len(keys) : keys[i] = keys[j] => i = j
        /\ {keys[i] : i \in 1..Len(keys)} = {k \in Keys : MapAfter(set_calls)[k] # Absent}


\* C35: running a system whose query's cached set holds an entity that is
\* no longer alive, or that no longer has a queried component, skips the
\* entity and completes: the run never ends in a panic of the extraction
C35_StaleCacheEntriesAreSkipped ==
    world.panic \notin {UnwrapNonePanic, AssertContainsPanic}


\* the pairs a step does not act on: those whose entity is live before and
\* after the step and for which no value was added or removed by it
OtherLivePairs ==
    {k \in DOMAIN added :
        /\ EntityAllocator_entity_info(world, k[1]) # None
        /\ EntityAllocator_entity_info(world', k[1]) # None
        /\ added'[k] = added[k]}

\* C36: add_component, replacement and remove_component on (E, c), and the
\* creation or destruction of any entity, leave get_component(E', c') as it
\* was for every other live pair (E', c'), also when the step makes a column
\* grow or creates a column.
C36_OtherComponentsKeepTheirValue ==
    [][world'.panic = NoPanic =>
          \A k \in OtherLivePairs :
              get_component(world', k[1], k[2]) = get_component(world, k[1], k[2])]_vars

\* two live entities: the first holds an A stored before the column of A
\* grew for the second, the second a B whose column was created after both
C36_Witness ==
    /\ world.panic = NoPanic
    /\ \E first, second \in LiveEntities :
          /\ EntityIndex(first) = 0
          /\ EntityIndex(second) = 1
          /\ get_component(world, first, "A") # None
          /\ get_component(world, first, "B") = None
          /\ get_component(world, second, "B") # None
          /\ world.columns["A"].len = 2
          /\ world.columns["B"].len = 2


(***************************************************************************)
(* Vocabulary of the claim on destructors.                                 *)
(***************************************************************************)
\* how many times a destructor ran on the value
TimesDropped(value) ==
    Cardinality({i \in 1..Len(lifetime.dropped) : lifetime.dropped[i] = value})

\* the value is in the slot of a component a live entity has
HeldByWorld(value) ==
    \E entity \in LiveEntities, C \in Components :
        get_component(world, entity, C) = Some(value)

\* C37: every component value stored through add_component has its
\* destructor run exactly once over the lifetime of the world: not while a
\* live entity holds it, once when it is replaced or removed, when its
\* entity is destroyed or when the world is dropped; no destructor runs on
\* anything else.
C37_EveryComponentDroppedExactlyOnce ==
    world.panic = NoPanic =>
        /\ \A i \in 1..Len(lifetime.stored) :
              LET value == lifetime.stored[i]
              IN  /\ TimesDropped(value) = (IF HeldByWorld(value) THEN 0 ELSE 1)
                  /\ lifetime.world_dropped => TimesDropped(value) = 1
        /\ \A i \in 1..Len(lifetime.dropped) :
              \E j \in 1..Len(lifetime.stored) : lifetime.dropped[i] = lifetime.stored[j]

\* the world was dropped after one value was replaced, one was destroyed
\* with its entity or removed, and one was still held
C37_Witness ==
    /\ world.panic = NoPanic
    /\ lifetime.world_dropped
    /\ Len(lifetime.stored) = 3
    /\ Len(lifetime.dropped) = 3
    /\ lifetime.dropped[1] = "1"
    /\ lifetime.dropped[3] = "2"
    /\ world.dropped_entities # <<>>


\* C38: compute_schedule terminates on every graph a sequence of add_system
\* calls builds: once the wave loop is entered it reaches an empty job set
\* and returns.
C38_ComputeScheduleTerminates ==
    (schedule_loop.pc = "computing") ~> (schedule_loop.pc = "returned")

\* the loop returned a plan of three layers in which a job is scheduled twice
C38_Witness ==
    /\ schedule_loop.pc = "returned"
    /\ Len(systems) = 3
    /\ Len(schedule_loop.schedules) = 3
    /\ \E i, j \in 1..3 :
          /\ i < j
          /\ \E a \in 1..Len(schedule_loop.schedules[i]) :
             \E b \in 1..Len(schedule_loop.schedules[j]) :
                schedule_loop.schedules[i][a] = schedule_loop.schedules[j][b]

\* the plan the loop returns is one of the plans of compute_schedule
ReturnedPlanIsComputed ==
    schedule_loop.pc = "returned" => schedule_loop.schedules \in compute_schedule(graph_edges)


\* C39: ensure_len(n) never shrinks an ErasedVec: after the call neither its
\* capacity nor its logical length is smaller than before, for every n.
C39_EnsureLenNeverShrinks ==
    \A i \in 1..Len(vec_calls) :
        vec_calls[i].op = "ensure_len" =>
            /\ vec_calls[i].after.capacity >= vec_calls[i].before.capacity
            /\ vec_calls[i].after.len >= vec_calls[i].before.len

\* the part of C39 that stands: ensure_len never lowers the capacity and
\* keeps the slots it had
C39_EnsureLenKeepsCapacity ==
    \A i \in 1..Len(vec_calls) :
        vec_calls[i].op = "ensure_len" =>
            /\ vec_calls[i].after.capacity >= vec_calls[i].before.capacity
            /\ vec_calls[i].after.capacity >= vec_calls[i].n
            /\ SubSeq(vec_calls[i].after.slots, 1, Len(vec_calls[i].before.slots))
                  = vec_calls[i].before.slots

====
